---- MODULE Spec2Model ----
(***************************************************************************)
(* Request routing and context management of the multi-agent orchestrator *)
(* (core/orchestrator.py, core/context_manager.py, core/agent_registry.py, *)
(* agents/base_agent.py).                                                  *)
(*                                                                         *)
(* Python strings are TLA+ strings (Len and \o work on them), lists are    *)
(* sequences, dicts are sequences of <<key, value>> pairs in insertion     *)
(* order, a None string is "None!".    Confidence values are in tenths     *)
(* (0.7 is 7).  Timestamps are a logical clock.                            *)
(***************************************************************************)
EXTENDS Integers, Sequences, FiniteSets, TLC

VARIABLES
    recent_turns_to_keep,   \* settings.recent_turns_to_keep
    client,                 \* ContextManager.client: the kind of object it is
    sessions,               \* ContextManager.sessions: session id -> context
    disk,                   \* session files under settings.session_storage_path
    pc,                     \* position of the process_request coroutine
    req,                    \* locals of the process_request in flight
    result,                 \* what the last process_request handed to its caller
    classification,         \* last value returned by _classify_intent
    clock,                  \* number of updates and requests started (bounds the run)
    last_call,              \* history: the ContextManager call that returned last
    pre,                    \* history: sessions and disk when the request began
    faults,                 \* number of storage failures so far (bounds the run)
    n_updates,              \* history: update_context calls on the cached context since
                            \* it was created empty
    summarized,             \* history: a summarize_context succeeded on the cached context
    disk_history,           \* history: n_updates and summarized of the context in the file
    executed,               \* history: names of the agents executed by the request
    replies,                \* history: the replies the LLM calls of these agents got
    messages,               \* history: the messages these LLM calls were made with
    errored,                \* history: sessions that got an error answer
    registry_agents,        \* AgentRegistry.agents: the registered names, in dict order
    intent_mappings,        \* AgentRegistry.intent_mappings: intent -> agent names
    answers,                \* history: what get_agents_for_intent returned for each
                            \* intent since the registry last changed
    last_resolve,           \* history: the get_agents_for_intent call that returned last
    rows,                   \* MemoryStore: the memory log entries, in insertion order
    keyword_index,          \* MemoryStore: the ids the keyword-search index holds
    last_id,                \* MemoryStore: the id assigned last
    vectors,                \* VectorIndex: the in-memory list of embedded documents
    hits,                   \* history: the HybridRetriever.search that returned last
    tasks,                  \* the process_request coroutines of one process that run
                            \* side by side: the position and the locals of each
    finished,               \* history: token total and actions of the requests that
                            \* returned after their update_context
    covered                 \* history: the turns the conversation_summary of each
                            \* cached context accounts for

vars == <<recent_turns_to_keep, client, sessions, disk, pc, req, result, classification,
          clock, last_call, pre, faults, n_updates, summarized, disk_history,
          executed, replies, messages, errored, registry_agents, intent_mappings, answers,
          last_resolve, rows, keyword_index, last_id, vectors, hits,
          tasks, finished, covered>>

\* the state of the AgentRegistry and its history
registry == <<registry_agents, intent_mappings, answers, last_resolve>>

\* the state of the MemoryStore, the VectorIndex and the retriever's history
memory == <<rows, keyword_index, last_id, vectors, hits>>

\* the coroutines that run side by side and their history
concurrent == <<tasks, finished, covered>>

---------------------------------------------------------------------------
(* Bounds of the model *)

MaxK == 3
MaxUpdates == 3
MaxRequests == 2
MaxFaults == 1
MaxRegistryCalls == 2
MaxRows == 2
MaxExecutions == 2
MaxConcurrentRequests == 2

SessionIds == {"s1"}

\* a session id a caller of process_request can pass that is no file name
UnsafeSessionIds == {"../x"}

\* the sessions the history variables keep track of
KnownSessionIds == SessionIds \cup UnsafeSessionIds

None == "None!"

Min(a, b) == IF a <= b THEN a ELSE b

RECURSIVE Join(_, _)
\* Python: sep.join(parts)
Join(sep, parts) ==
    IF parts = <<>> THEN ""
    ELSE IF Len(parts) = 1 THEN parts[1]
    ELSE parts[1] \o sep \o Join(sep, Tail(parts))

RECURSIVE Flatten(_)
\* concatenation of a sequence of sequences
Flatten(ss) == IF ss = <<>> THEN <<>> ELSE Head(ss) \o Flatten(Tail(ss))

RECURSIVE SumTokens(_)
\* Python: sum(r.tokens_used for r in responses)
SumTokens(rs) == IF rs = <<>> THEN 0 ELSE Head(rs).tokens_used + SumTokens(Tail(rs))

\* Python: xs[-n:] for n >= 0 (the start -0 is 0, so n = 0 gives all of xs)
LastN(xs, n) ==
    IF n = 0 THEN xs
    ELSE IF n >= Len(xs) THEN xs
    ELSE SubSeq(xs, Len(xs) - n + 1, Len(xs))

---------------------------------------------------------------------------
(* core/types.py *)

\* ContextSummary(session_id=s): the dataclass defaults
ContextSummary(s) ==
    [session_id |-> s,
     conversation_summary |-> "",
     recent_turns |-> <<>>,
     active_files |-> <<>>,
     task_history |-> <<>>,
     total_tokens_used |-> 0]

ConversationTurn(u, a, ts, t) ==
    [user |-> u, assistant |-> a, timestamp |-> ts, tokens_used |-> t]

---------------------------------------------------------------------------
(* core/context_manager.py *)

\* _save_to_disk that leaves the task history out of the dict
ContextDict_NoTaskHistory(context) ==
    [session_id |-> context.session_id,
     conversation_summary |-> context.conversation_summary,
     recent_turns |-> [i \in 1..Len(context.recent_turns) |->
        [user |-> context.recent_turns[i].user,
         assistant |-> context.recent_turns[i].assistant,
         timestamp |-> context.recent_turns[i].timestamp,
         tokens_used |-> context.recent_turns[i].tokens_used]],
     active_files |-> context.active_files,
     task_history |-> <<>>,
     total_tokens_used |-> context.total_tokens_used]

\* the dict written by _save_to_disk (json.dump keeps lists and key order)
ContextDict(context) ==
    [session_id |-> context.session_id,
     conversation_summary |-> context.conversation_summary,
     recent_turns |-> [i \in 1..Len(context.recent_turns) |->
        [user |-> context.recent_turns[i].user,
         assistant |-> context.recent_turns[i].assistant,
         timestamp |-> context.recent_turns[i].timestamp,
         tokens_used |-> context.recent_turns[i].tokens_used]],
     active_files |-> context.active_files,
     task_history |-> context.task_history,
     total_tokens_used |-> context.total_tokens_used]

\* _save_to_disk: every exception is swallowed.  outcome "ok" writes the
\* file, "no_write" fails before open(), "partial" fails after open(.., "w")
\* has truncated the file, which json.load then rejects.
SaveOutcomes == {"ok", "no_write", "partial"}

SaveToDisk(d, context, outcome) ==
    LET s == context.session_id IN
    CASE outcome = "ok" ->
           [x \in DOMAIN d \cup {s} |->
              IF x = s THEN [valid |-> TRUE, data |-> ContextDict(context)] ELSE d[x]]
      [] outcome = "partial" ->
           [x \in DOMAIN d \cup {s} |->
              IF x = s THEN [valid |-> FALSE, data |-> ContextDict(ContextSummary(s))]
              ELSE d[x]]
      [] OTHER -> d

\* _load_from_disk that finds no file
LoadFromDisk_NeverLoads(d, s) == <<>>

\* _load_from_disk: <<>> stands for None (the file is missing or cannot be
\* decoded), <<context>> for a loaded context
LoadFromDisk(d, s) ==
    IF s \notin DOMAIN d THEN <<>>
    ELSE IF ~d[s].valid THEN <<>>
    ELSE LET data == d[s].data IN
         <<[session_id |-> data.session_id,
            conversation_summary |-> data.conversation_summary,
            recent_turns |-> [i \in 1..Len(data.recent_turns) |->
                ConversationTurn(data.recent_turns[i].user,
                                 data.recent_turns[i].assistant,
                                 data.recent_turns[i].timestamp,
                                 data.recent_turns[i].tokens_used)],
            active_files |-> data.active_files,
            task_history |-> data.task_history,
            total_tokens_used |-> data.total_tokens_used]>>

\* get_context without the test for a cached context
GetContext_AlwaysReloads(ss, d, s) ==
    LET context == LoadFromDisk(d, s) IN
    [x \in DOMAIN ss \cup {s} |->
       IF x = s THEN (IF context # <<>> THEN context[1] ELSE ContextSummary(s))
       ELSE ss[x]]

\* get_context: the sessions dict after the call
GetContext(ss, d, s) ==
    IF s \in DOMAIN ss THEN ss
    ELSE LET context == LoadFromDisk(d, s) IN
         [x \in DOMAIN ss \cup {s} |->
            IF x = s THEN (IF context # <<>> THEN context[1] ELSE ContextSummary(s))
            ELSE ss[x]]

\* dict assignment d[k] = v on an insertion-ordered dict
DictSet(d, k, v) ==
    IF \E i \in 1..Len(d) : d[i][1] = k
    THEN [i \in 1..Len(d) |-> IF d[i][1] = k THEN <<k, v>> ELSE d[i]]
    ELSE Append(d, <<k, v>>)

RECURSIVE MergeToolCalls(_, _, _)
\* the inner loop of update_context over one response's tool_calls
MergeToolCalls(files, tcs, task_id) ==
    IF tcs = <<>> THEN files
    ELSE LET tc == Head(tcs)
             files1 ==
                IF tc.type = "file_operation" /\ tc.filename # None /\ tc.filename # ""
                THEN DictSet(files, tc.filename,
                             IF tc.summary # None THEN tc.summary
                             ELSE "Modified by " \o task_id)
                ELSE files
         IN MergeToolCalls(files1, Tail(tcs), task_id)

RECURSIVE MergeActiveFiles(_, _)
\* the outer loop of update_context over agent_responses
MergeActiveFiles(files, rs) ==
    IF rs = <<>> THEN files
    ELSE MergeActiveFiles(MergeToolCalls(files, Head(rs).tool_calls, Head(rs).task_id),
                          Tail(rs))

\* update_context without its truncation
TruncateTurns_Never(turns, k) == turns

\* recent_turns after the append and the truncation of update_context
TruncateTurns(turns, k) ==
    IF Len(turns) > k THEN LastN(turns, k) ELSE turns

\* update_context that counts the tokens of a turn only when no agent failed
UpdatedContext_NoTokensOnFailure(context, k, user_query, assistant_response, agent_responses, tokens_used, now) ==
    [context EXCEPT
       !.recent_turns = TruncateTurns(
            Append(context.recent_turns,
                   ConversationTurn(user_query, assistant_response, now, tokens_used)), k),
       !.active_files = MergeActiveFiles(context.active_files, agent_responses),
       !.task_history = context.task_history \o
            Flatten([i \in 1..Len(agent_responses) |-> agent_responses[i].actions_taken]),
       !.total_tokens_used =
            IF \E i \in 1..Len(agent_responses) : agent_responses[i].status = "failed"
            THEN context.total_tokens_used
            ELSE context.total_tokens_used + tokens_used]

\* update_context without the save: the context after the call
UpdatedContext(context, k, user_query, assistant_response, agent_responses, tokens_used, now) ==
    [context EXCEPT
       !.recent_turns = TruncateTurns(
            Append(context.recent_turns,
                   ConversationTurn(user_query, assistant_response, now, tokens_used)), k),
       !.active_files = MergeActiveFiles(context.active_files, agent_responses),
       !.task_history = context.task_history \o
            Flatten([i \in 1..Len(agent_responses) |-> agent_responses[i].actions_taken]),
       !.total_tokens_used = context.total_tokens_used + tokens_used]

\* the 10 of task_history[-10:] in _build_full_context
RecentTasksShown == 10

\* _build_full_context that lists the whole task history
FullContextParts_WholeHistory(context) ==
    Flatten([i \in 1..Len(context.recent_turns) |->
                <<"User: " \o context.recent_turns[i].user,
                  "Assistant: " \o context.recent_turns[i].assistant,
                  "">>])
    \o (IF context.active_files # <<>>
        THEN <<"Active Files:">>
             \o [i \in 1..Len(context.active_files) |->
                   "  - " \o context.active_files[i][1] \o ": " \o context.active_files[i][2]]
             \o <<"">>
        ELSE <<>>)
    \o (IF context.task_history # <<>>
        THEN <<"Recent Actions:">>
             \o [i \in 1..Len(context.task_history) |-> "  - " \o context.task_history[i]]
             \o <<"">>
        ELSE <<>>)

\* _build_full_context: the list of lines, before the join
FullContextParts(context) ==
    Flatten([i \in 1..Len(context.recent_turns) |->
                <<"User: " \o context.recent_turns[i].user,
                  "Assistant: " \o context.recent_turns[i].assistant,
                  "">>])
    \o (IF context.active_files # <<>>
        THEN <<"Active Files:">>
             \o [i \in 1..Len(context.active_files) |->
                   "  - " \o context.active_files[i][1] \o ": " \o context.active_files[i][2]]
             \o <<"">>
        ELSE <<>>)
    \o (IF context.task_history # <<>>
        THEN LET recent_tasks == LastN(context.task_history, RecentTasksShown) IN
             <<"Recent Actions:">>
             \o [i \in 1..Len(recent_tasks) |-> "  - " \o recent_tasks[i]]
             \o <<"">>
        ELSE <<>>)

BuildFullContext(context) == Join("\n", FullContextParts(context))

\* _estimate_context_tokens: 1 token for 4 characters
EstimateContextTokens(context) == Len(BuildFullContext(context)) \div 4

\* settings.max_context_tokens, scaled down to the size of the modelled texts
MaxContextTokens == 10

\* settings.summarization_threshold (0.8), in percent
SummarizationPct == 80

\* ContextManager.summarization_threshold, set in __init__
SummarizationThreshold == (MaxContextTokens * SummarizationPct) \div 100

\* should_summarize, on the context get_context returns
ShouldSummarize(context) == EstimateContextTokens(context) > SummarizationThreshold

\* Replies of the summarization LLM call: the call raises, the response has
\* no content block, or content[0].text is a text.
SummaryTexts == {"", "S1", "S2"}

SummaryReplies ==
    {[ok |-> FALSE, content |-> <<>>], [ok |-> TRUE, content |-> <<>>]}
    \cup {[ok |-> TRUE, content |-> <<t>>] : t \in SummaryTexts}

\* What ContextManager.client can be.  Orchestrator.__init__ passes its
\* ModelRouter, which has no attribute messages (AttributeError); the default
\* of ContextManager.__init__ is the synchronous Anthropic client, whose
\* messages.create returns a Message that cannot be awaited (TypeError); only
\* a client with an awaitable messages.create gets past the await.
ClientKinds == {"ModelRouter", "Anthropic", "AsyncAnthropic"}

\* the client the Orchestrator hands to its ContextManager
OrchestratorClient == "ModelRouter"

\* the try block of summarize_context reaches the assignment of the summary
SummarizeSucceeds(c, reply) ==
    c = "AsyncAnthropic" /\ reply.ok /\ reply.content # <<>>

\* summarize_context that appends the new text to the old summary
SummarizedContext_Appends(context, reply) ==
    [context EXCEPT
       !.conversation_summary = context.conversation_summary \o reply.content[1],
       !.recent_turns = IF context.recent_turns # <<>>
                        THEN <<context.recent_turns[Len(context.recent_turns)]>>
                        ELSE context.recent_turns]

\* summarize_context, the body of the try block: the context after it
SummarizedContext(context, reply) ==
    [context EXCEPT
       !.conversation_summary = reply.content[1],
       !.recent_turns = IF context.recent_turns # <<>>
                        THEN <<context.recent_turns[Len(context.recent_turns)]>>
                        ELSE context.recent_turns]

\* summarize_context that collapses the turns before the call can fail
SummarizeFailedContext_Collapses(context) ==
    [context EXCEPT
       !.recent_turns = IF context.recent_turns # <<>>
                        THEN <<context.recent_turns[Len(context.recent_turns)]>>
                        ELSE context.recent_turns]

\* summarize_context, the except branch: the context is the one it was
SummarizeFailedContext(context) == context

\* clear_session: the sessions dict and the files after the call
ClearedSessions(ss, s) == [x \in DOMAIN ss \ {s} |-> ss[x]]

ClearedDisk(d, s, unlink_ok) ==
    IF unlink_ok THEN [x \in DOMAIN d \ {s} |-> d[x]] ELSE d

---------------------------------------------------------------------------
(* core/agent_registry.py and Orchestrator._register_agents *)

\* the names of the six agents _register_agents registers
RegisteredAgents ==
    {"coder", "test_writer", "requirement_analyzer", "qa_checker", "docs_agent", "devops"}

\* AgentRegistry.get_agent: <<>> stands for None
GetAgent(name) == IF name \in RegisteredAgents THEN <<name>> ELSE <<>>

\* process_request, step 3: the agents of classification.agents that resolve
ResolveAgents(names) ==
    Flatten([i \in 1..Len(names) |-> GetAgent(names[i])])

---------------------------------------------------------------------------
(* Orchestrator._classify_intent and _fallback_classification *)

\* a query is the sequence of its characters
QueryText(q) == Join("", q)

UpperCase == <<"A","B","C","D","E","F","G","H","I","J","K","L","M",
               "N","O","P","Q","R","S","T","U","V","W","X","Y","Z">>
LowerCase == <<"a","b","c","d","e","f","g","h","i","j","k","l","m",
               "n","o","p","q","r","s","t","u","v","w","x","y","z">>

\* str.lower()
Lower(q) ==
    [i \in 1..Len(q) |->
        IF \E j \in 1..26 : UpperCase[j] = q[i]
        THEN LowerCase[CHOOSE j \in 1..26 : UpperCase[j] = q[i]]
        ELSE q[i]]

\* Python: word in text
Contains(text, word) ==
    \E i \in 0..(Len(text) - Len(word)) : SubSeq(text, i + 1, i + Len(word)) = word

AnyWordIn(words, text) == \E i \in 1..Len(words) : Contains(text, words[i])

TestWords == << <<"t","e","s","t">>, <<"p","y","t","e","s","t">>,
                <<"u","n","i","t","t","e","s","t">> >>
RequirementWords == << <<"j","i","r","a">>, <<"t","i","c","k","e","t">>,
                       <<"r","e","q","u","i","r","e","m","e","n","t">>,
                       <<"s","p","e","c">> >>
QaWords == << <<"l","i","n","t">>, <<"q","u","a","l","i","t","y">>,
              <<"r","e","v","i","e","w">>, <<"c","h","e","c","k">> >>
DocsWords == << <<"d","o","c","u","m","e","n","t">>, <<"d","o","c","s">>,
                <<"r","e","a","d","m","e">>, <<"s","l","a","c","k">> >>

\* a JSON value in the place of the agents list
JsonList(items) == [type |-> "list", items |-> items]
JsonNull == [type |-> "null", items |-> <<>>]

IntentClassification(intent, confidence, agents, reasoning) ==
    [intent |-> intent, confidence |-> confidence, agents |-> agents,
     reasoning |-> reasoning]

\* _fallback_classification that names the documentation agent "docs"
FallbackClassification_DocsName(query) ==
    LET query_lower == Lower(query) IN
    IF AnyWordIn(TestWords, query_lower)
    THEN IntentClassification("test_writing", 7, JsonList(<<"test_writer">>),
                              "Query mentions testing")
    ELSE IF AnyWordIn(RequirementWords, query_lower)
    THEN IntentClassification("requirement_analysis", 7,
                              JsonList(<<"requirement_analyzer">>),
                              "Query mentions requirements or Jira")
    ELSE IF AnyWordIn(QaWords, query_lower)
    THEN IntentClassification("qa_checking", 7, JsonList(<<"qa_checker">>),
                              "Query mentions code quality")
    ELSE IF AnyWordIn(DocsWords, query_lower)
    THEN IntentClassification("documentation", 7, JsonList(<<"docs">>),
                              "Query mentions documentation")
    ELSE IntentClassification("code_generation", 6, JsonList(<<"coder">>),
                              "Default to code generation")

\* Orchestrator._fallback_classification
FallbackClassification(query) ==
    LET query_lower == Lower(query) IN
    IF AnyWordIn(TestWords, query_lower)
    THEN IntentClassification("test_writing", 7, JsonList(<<"test_writer">>),
                              "Query mentions testing")
    ELSE IF AnyWordIn(RequirementWords, query_lower)
    THEN IntentClassification("requirement_analysis", 7,
                              JsonList(<<"requirement_analyzer">>),
                              "Query mentions requirements or Jira")
    ELSE IF AnyWordIn(QaWords, query_lower)
    THEN IntentClassification("qa_checking", 7, JsonList(<<"qa_checker">>),
                              "Query mentions code quality")
    ELSE IF AnyWordIn(DocsWords, query_lower)
    THEN IntentClassification("documentation", 7, JsonList(<<"docs_agent">>),
                              "Query mentions documentation")
    ELSE IntentClassification("code_generation", 6, JsonList(<<"coder">>),
                              "Default to code generation")

\* Python: d.get(key, default) on a decoded JSON object
DictGet(d, key, default) ==
    IF \E i \in 1..Len(d) : d[i][1] = key
    THEN d[CHOOSE i \in 1..Len(d) : d[i][1] = key][2]
    ELSE default

\* Replies of the classification LLM call.  kind "raises": the call fails;
\* "no_json": the text has no {..} span; "bad_json": json.loads rejects the
\* span; "json": the span decodes to the object obj.
ClassifyObjects ==
    { << <<"intent", "code_generation">>, <<"confidence", 9>>,
         <<"agents", JsonList(<<"coder">>)>>, <<"reasoning", "r">> >>,
      << <<"intent", "code_review">>, <<"confidence", 8>>,
         <<"agents", JsonList(<<"coder", "test_writer", "qa_checker">>)>> >>,
      << >>,
      << <<"intent", "chat">>, <<"agents", JsonList(<<>>)>> >>,
      << <<"intent", "planning">>, <<"confidence", 15>>,
         <<"agents", JsonList(<<"planner", "coder">>)>> >>,
      << <<"intent", "planning">>, <<"agents", JsonList(<<"planner">>)>> >>,
      << <<"intent", "chat">>, <<"agents", JsonNull>> >> }

ClassifyReplies ==
    {[kind |-> k, obj |-> <<>>] : k \in {"raises", "no_json", "bad_json"}}
    \cup {[kind |-> "json", obj |-> o] : o \in ClassifyObjects}

\* _classify_intent: the classification it returns
ClassifyIntent(user_query, reply) ==
    IF reply.kind = "json"
    THEN IntentClassification(DictGet(reply.obj, "intent", "unknown"),
                              DictGet(reply.obj, "confidence", 5),
                              DictGet(reply.obj, "agents", JsonList(<<"coder">>)),
                              DictGet(reply.obj, "reasoning", ""))
    ELSE FallbackClassification(user_query)

---------------------------------------------------------------------------
(* core/agent_registry.py: AgentRegistry *)

\* AgentRegistry.__init__: the intent table, in the order of the dict literal
DefaultIntentMappings ==
    << <<"code_generation", <<"coder">>>>,
       <<"code_review", <<"coder", "qa_checker">>>>,
       <<"test_writing", <<"test_writer">>>>,
       <<"test_generation", <<"test_writer">>>>,
       <<"requirement_analysis", <<"requirement_analyzer">>>>,
       <<"requirements", <<"requirement_analyzer">>>>,
       <<"qa_checking", <<"qa_checker">>>>,
       <<"quality_assurance", <<"qa_checker">>>>,
       <<"code_quality", <<"qa_checker">>>>,
       <<"documentation", <<"docs_agent">>>>,
       <<"docs", <<"docs_agent">>>>,
       <<"jira", <<"requirement_analyzer">>>>,
       <<"confluence", <<"requirement_analyzer", "docs_agent">>>>,
       <<"slack", <<"docs_agent">>>>,
       <<"ci_cd", <<"devops">>>>,
       <<"cicd", <<"devops">>>>,
       <<"deployment", <<"devops">>>>,
       <<"deploy", <<"devops">>>>,
       <<"release", <<"devops">>>>,
       <<"release_management", <<"devops">>>>,
       <<"github_actions", <<"devops">>>>,
       <<"workflow", <<"devops">>>>,
       <<"pipeline", <<"devops">>>>,
       <<"docker", <<"devops">>>>,
       <<"dockerfile", <<"devops">>>>,
       <<"containerization", <<"devops">>>>,
       <<"infrastructure", <<"devops">>>>,
       <<"devops", <<"devops">>>>,
       <<"ship", <<"devops">>>>,
       <<"production", <<"devops">>>> >>

\* the agents of Orchestrator._register_agents, in registration order
OrchestratorAgents ==
    <<"coder", "test_writer", "requirement_analyzer", "qa_checker", "docs_agent", "devops">>

\* one character of str.lower()
LowerChar(c) ==
    IF \E j \in 1..26 : UpperCase[j] = c
    THEN LowerCase[CHOOSE j \in 1..26 : UpperCase[j] = c]
    ELSE c

RECURSIVE LowerStr(_)
\* str.lower() of a string
LowerStr(t) ==
    IF t = "" THEN ""
    ELSE LowerChar(SubSeq(t, 1, 1)) \o LowerStr(SubSeq(t, 2, Len(t)))

\* the characters str.strip() removes
Whitespace == {" ", "\t", "\n"}

RECURSIVE Strip(_)
\* str.strip() of a string
Strip(t) ==
    IF t = "" THEN ""
    ELSE IF SubSeq(t, 1, 1) \in Whitespace THEN Strip(SubSeq(t, 2, Len(t)))
    ELSE IF SubSeq(t, Len(t), Len(t)) \in Whitespace THEN Strip(SubSeq(t, 1, Len(t) - 1))
    ELSE t

\* key in d, for a dict
HasKey(d, key) == \E i \in 1..Len(d) : d[i][1] = key

\* register_agent: self.agents[agent.name] = agent
RegisteredNames(names, name) ==
    IF \E i \in 1..Len(names) : names[i] = name THEN names ELSE Append(names, name)

\* [self.agents[name] for name in agent_names if name in self.agents]
AgentsNamed(registered, agent_names) ==
    SelectSeq(agent_names, LAMBDA n : \E i \in 1..Len(registered) : registered[i] = n)

\* get_agents_for_intent whose scan returns the agents of the first key that
\* matches, registered or not
GetAgentsForIntent_FirstMatch(registered, mappings, intent_arg) ==
    LET intent == Strip(LowerStr(intent_arg))
        matching == {i \in 1..Len(mappings) :
                        Contains(intent, mappings[i][1]) \/ Contains(mappings[i][1], intent)}
    IN IF HasKey(mappings, intent)
       THEN AgentsNamed(registered, DictGet(mappings, intent, <<>>))
       ELSE IF matching = {} THEN <<>>
       ELSE AgentsNamed(registered,
                        mappings[CHOOSE i \in matching : \A j \in matching : i <= j][2])

\* get_agents_for_intent: the names of the agents it returns
GetAgentsForIntent(registered, mappings, intent_arg) ==
    LET intent == Strip(LowerStr(intent_arg))
        matching == {i \in 1..Len(mappings) :
                        /\ Contains(intent, mappings[i][1]) \/ Contains(mappings[i][1], intent)
                        /\ AgentsNamed(registered, mappings[i][2]) # <<>>}
    IN IF HasKey(mappings, intent)
       THEN AgentsNamed(registered, DictGet(mappings, intent, <<>>))
       ELSE IF matching = {} THEN <<>>
       ELSE AgentsNamed(registered,
                        mappings[CHOOSE i \in matching : \A j \in matching : i <= j][2])

\* add_intent_mapping: the table after the call
AddedMapping(mappings, intent, agent_names) ==
    DictSet(mappings, LowerStr(intent), agent_names)

---------------------------------------------------------------------------
(* utils/validators.py and main.py *)

\* max_length of Validators.sanitize_input (10000), scaled down to the size
\* of the modelled queries
InputLengthLimit == 4

\* the characters sanitize_input removes, neither printable nor whitespace:
\* the null byte, written "NUL"
ControlChars == {"NUL"}

RECURSIVE StripChars(_)
\* str.strip() of a text given as the sequence of its characters
StripChars(t) ==
    IF t = <<>> THEN <<>>
    ELSE IF Head(t) \in Whitespace THEN StripChars(Tail(t))
    ELSE IF t[Len(t)] \in Whitespace THEN StripChars(SubSeq(t, 1, Len(t) - 1))
    ELSE t

\* Validators.sanitize_input: <<>> stands for the ValueError of a text that
\* is too long, <<text>> for the text it returns
SanitizeInput(t) ==
    IF Len(t) > InputLengthLimit THEN <<>>
    ELSE <<StripChars(SelectSeq(t, LAMBDA c : c \notin ControlChars))>>

Digits == <<"0","1","2","3","4","5","6","7","8","9">>

\* the characters of the pattern ^[a-zA-Z0-9_-]+$
SessionIdChars ==
    {UpperCase[i] : i \in 1..26} \cup {LowerCase[i] : i \in 1..26}
    \cup {Digits[i] : i \in 1..10} \cup {"_", "-"}

\* the length validate_session_id allows
SessionIdLimit == 100

\* Validators.validate_session_id returns True
\* (it raises ValueError otherwise); the $ of the pattern also matches before
\* one newline at the end
ValidateSessionId(session_id) ==
    LET n == Len(session_id)
        body == IF n > 0 /\ SubSeq(session_id, n, n) = "\n"
                THEN SubSeq(session_id, 1, n - 1) ELSE session_id
    IN /\ session_id # ""
       /\ body # ""
       /\ \A i \in 1..Len(body) : SubSeq(body, i, i) \in SessionIdChars
       /\ n <= SessionIdLimit

\* the words that end interactive_mode
ExitWords == { <<"e","x","i","t">>, <<"q","u","i","t">>, <<"q">> }

---------------------------------------------------------------------------
(* agents/base_agent.py *)

\* Replies of an agent's LLM call: the call raises, or it returns text
\* blocks, tool-use blocks and a usage
AgentReplies ==
    { [ok |-> FALSE, stop_reason |-> "", texts |-> <<>>, tools |-> <<>>,
       usage |-> FALSE, input_tokens |-> 0, output_tokens |-> 0],
      [ok |-> TRUE, stop_reason |-> "end_turn", texts |-> <<"ok">>, tools |-> <<>>,
       usage |-> TRUE, input_tokens |-> 60, output_tokens |-> 40],
      [ok |-> TRUE, stop_reason |-> "tool_use", texts |-> <<>>, tools |-> <<"edit">>,
       usage |-> TRUE, input_tokens |-> 30, output_tokens |-> 10] }

\* a reply the handling of which raises: the call returns a response whose
\* usage is None, after tool-use blocks have been recorded
MalformedReplies ==
    { [ok |-> TRUE, stop_reason |-> "tool_use", texts |-> <<"ok">>, tools |-> <<"edit">>,
       usage |-> FALSE, input_tokens |-> 0, output_tokens |-> 0] }

AgentResponse(task_id, status, res, actions_taken, tokens_used, tool_calls, errors) ==
    [task_id |-> task_id, status |-> status, result |-> res,
     actions_taken |-> actions_taken, tokens_used |-> tokens_used,
     tool_calls |-> tool_calls, errors |-> errors]

ToolCall(type, tool, filename, summary) ==
    [type |-> type, tool |-> tool, filename |-> filename, summary |-> summary]

\* str(e) of the exception the try block of execute raises for the reply
ExecuteError(reply) ==
    IF ~reply.ok THEN "llm error"
    ELSE "'NoneType' object has no attribute 'input_tokens'"

\* BaseAgent.execute with the try block around the LLM call only: an error
\* of the response handling reaches the caller
Execute_GuardsCallOnly(task_id, reply) ==
    IF reply.ok
    THEN LET uses == IF reply.stop_reason = "tool_use" THEN reply.tools ELSE <<>> IN
         AgentResponse(task_id, IF reply.usage THEN "success" ELSE "raised",
            Join("\n", reply.texts),
            [i \in 1..Len(uses) |-> "Used tool: " \o uses[i]],
            reply.input_tokens + reply.output_tokens,
            [i \in 1..Len(uses) |-> ToolCall("tool_use", uses[i], None, None)],
            <<>>)
    ELSE AgentResponse(task_id, "failed", None, <<>>, 0, <<>>, <<ExecuteError(reply)>>)

\* BaseAgent.execute
Execute(task_id, reply) ==
    IF reply.ok /\ reply.usage
    THEN LET uses == IF reply.stop_reason = "tool_use" THEN reply.tools ELSE <<>> IN
         AgentResponse(task_id, "success", Join("\n", reply.texts),
            [i \in 1..Len(uses) |-> "Used tool: " \o uses[i]],
            reply.input_tokens + reply.output_tokens,
            [i \in 1..Len(uses) |-> ToolCall("tool_use", uses[i], None, None)],
            <<>>)
    ELSE AgentResponse(task_id, "failed", None, <<>>, 0, <<>>, <<ExecuteError(reply)>>)

---------------------------------------------------------------------------
(* Orchestrator._execute_agents and _aggregate_responses *)

\* str(uuid.uuid4()) of the i-th task of a request, as its '-' separated parts
TaskIdParts == << <<"1f0e", "a1">>, <<"2f0e", "b2">>, <<"3f0e", "c3">> >>

TaskId(i) == Join("-", TaskIdParts[i])

\* task_id.split('-')[0].title()
TaskTitle(i) ==
    LET head == TaskIdParts[i][1] IN
    CASE head = "1f0e" -> "1F0E"
      [] head = "2f0e" -> "2F0E"
      [] head = "3f0e" -> "3F0E"

\* _execute_agents without the break
ContinuesAfter_Always(response) == TRUE

\* _execute_agents: the loop goes on to the next agent after this response
ContinuesAfter(response) == response.status # "failed"

\* f"{x}" of a string or None
Str(x) == IF x = None THEN "None" ELSE x

\* _aggregate_responses that leaves the failed responses out of the sections
AggregateResponses_SkipsFailed(responses) ==
    IF responses = <<>> THEN "No response generated."
    ELSE IF Len(responses) = 1
    THEN (IF responses[1].result = None \/ responses[1].result = ""
          THEN "Task completed." ELSE responses[1].result)
    ELSE LET kept == SelectSeq([i \in 1..Len(responses) |-> i],
                               LAMBDA i : responses[i].status # "failed")
         IN Join("\n", [j \in 1..Len(kept) |->
               "## " \o TaskTitle(kept[j]) \o "\n\n"
                     \o Str(responses[kept[j]].result) \o "\n"])

\* _aggregate_responses
AggregateResponses(responses) ==
    IF responses = <<>> THEN "No response generated."
    ELSE IF Len(responses) = 1
    THEN (IF responses[1].result = None \/ responses[1].result = ""
          THEN "Task completed." ELSE responses[1].result)
    ELSE Join("\n", [i \in 1..Len(responses) |->
            "## " \o TaskTitle(i) \o "\n\n" \o Str(responses[i].result) \o "\n"])

\* process_request: the canned answer when no agent resolves
CannotRoute ==
    [kind |-> "cannot_route",
     text |-> "I'm not sure how to handle that request. "
              \o "Could you please rephrase or provide more details?"]

\* process_request: the answer of the normal path
Response(final_response) == [kind |-> "response", text |-> final_response]

\* process_request without the except branch: the exception reaches the caller
ErrorResponse_Raises(e) == [kind |-> "raised", text |-> e]

\* process_request: the except branch, for an exception with message e
ErrorResponse(e) ==
    [kind |-> "error",
     text |-> "An error occurred while processing your request: " \o e]

---------------------------------------------------------------------------
(* BaseAgent._build_messages *)

\* a message of the LLM conversation
Message(role, content) == [role |-> role, content |-> content]

\* the 2 of context.recent_turns[-2:]
TurnsInMessages == 2

\* the lines of the active files in the task content
ActiveFileLines(files) ==
    [i \in 1..Len(files) |-> "  - " \o files[i][1] \o ": " \o Str(files[i][2])]

\* _build_messages(task, context): the summary pair, the recent turns, the
\* task content
BuildMessages(user_query, context) ==
    (IF context.conversation_summary # ""
     THEN << Message("user", "Previous conversation summary:\n"
                             \o context.conversation_summary \o "\n\n"),
             Message("assistant", "I understand the previous context.") >>
     ELSE <<>>)
    \o Flatten([i \in 1..Len(LastN(context.recent_turns, TurnsInMessages)) |->
                  << Message("user", LastN(context.recent_turns, TurnsInMessages)[i].user),
                     Message("assistant",
                             LastN(context.recent_turns, TurnsInMessages)[i].assistant) >>])
    \o << Message("user",
                  user_query
                  \o (IF context.active_files # <<>>
                      THEN "\n\nActive files:\n"
                           \o Join("\n", ActiveFileLines(context.active_files))
                      ELSE "")) >>

---------------------------------------------------------------------------
(* MemoryStore, VectorIndex and HybridRetriever.  Relevance and similarity *)
(* are those of a document for the one query of the model; similarities    *)
(* and weights are in tenths.                                               *)

\* a memory log entry {id, sessionId, content}, its content given by its
\* keyword relevance for the query (0: no match)
MemoryRow(id, session_id, relevance) ==
    [id |-> id, session_id |-> session_id, relevance |-> relevance]

\* MemoryStore.add: the rows after the row is persisted
AddedRow(rs, id, session_id, relevance) ==
    Append(rs, MemoryRow(id, session_id, relevance))

\* MemoryStore.add that leaves the index update to a later step
AddedIndexEntry_Deferred(ix, id) == ix

\* MemoryStore.add: the keyword-search index after the update for the row
AddedIndexEntry(ix, id) == Append(ix, id)

\* a search hit before the merge
Hit(doc_id, score) == [doc_id |-> doc_id, score |-> score]

\* one step of a stable sort by descending score: x goes behind every hit
\* whose score is at least its own
InsertByScore(x, sorted) ==
    LET k == Cardinality({i \in 1..Len(sorted) : sorted[i].score >= x.score})
    IN SubSeq(sorted, 1, k) \o <<x>> \o SubSeq(sorted, k + 1, Len(sorted))

RECURSIVE SortByScore(_)
\* stable sort by descending score
SortByScore(xs) ==
    IF xs = <<>> THEN <<>>
    ELSE InsertByScore(xs[Len(xs)], SortByScore(SubSeq(xs, 1, Len(xs) - 1)))

\* the first n of xs
Truncate(xs, n) == SubSeq(xs, 1, Min(n, Len(xs)))

\* MemoryStore.searchKeyword: the indexed rows that match, ranked by relevance
SearchKeyword(rs, ix, limit) ==
    LET indexed == SelectSeq(rs, LAMBDA r : (\E i \in 1..Len(ix) : ix[i] = r.id)
                                            /\ r.relevance > 0)
        found == [i \in 1..Len(indexed) |-> Hit(indexed[i].id, indexed[i].relevance)]
    IN Truncate(SortByScore(found), limit)

\* VectorIndex.search: all stored vectors by descending cosine similarity;
\* [] without the embedding capability
VectorSearch(vs, limit, available) ==
    IF available THEN Truncate(SortByScore(vs), limit) ELSE <<>>

\* keywordWeight and semanticWeight of HybridRetriever.search (0.5 each)
KeywordWeight == 5
SemanticWeight == 5

\* Scores of one search are kept as integers in units of 1 / (100 * ScoreUnit):
\* ScoreUnit is the number of keyword hits (1 when there is none)
ScoreUnit(count) == IF count = 0 THEN 1 ELSE count

\* (1 - rank / count) * keywordWeight, rank counted from 0
KeywordContribution(rank, count) == (count - rank) * KeywordWeight * 10

\* similarity * semanticWeight
SemanticContribution(similarity, count) ==
    similarity * SemanticWeight * ScoreUnit(count)

\* an entry of the merged result
Merged(doc_id, score, source) == [doc_id |-> doc_id, score |-> score, source |-> source]

\* the keyword hits as the first entries of the merge
KeywordEntries(keyword) ==
    [i \in 1..Len(keyword) |->
        Merged(keyword[i].doc_id, KeywordContribution(i - 1, Len(keyword)), "keyword")]

\* a merge step in which a semantic hit replaces the keyword entry of its document
MergeSemanticHit_Overwrites(merged, hit, count) ==
    LET contribution == SemanticContribution(hit.score, count) IN
    IF \E i \in 1..Len(merged) : merged[i].doc_id = hit.doc_id
    THEN [i \in 1..Len(merged) |->
             IF merged[i].doc_id = hit.doc_id
             THEN Merged(hit.doc_id, contribution, "semantic")
             ELSE merged[i]]
    ELSE Append(merged, Merged(hit.doc_id, contribution, "semantic"))

\* merge by document id: the scores of a document present in both lists are
\* summed and its source tag becomes hybrid
MergeSemanticHit(merged, hit, count) ==
    LET contribution == SemanticContribution(hit.score, count) IN
    IF \E i \in 1..Len(merged) : merged[i].doc_id = hit.doc_id
    THEN [i \in 1..Len(merged) |->
             IF merged[i].doc_id = hit.doc_id
             THEN Merged(hit.doc_id, merged[i].score + contribution, "hybrid")
             ELSE merged[i]]
    ELSE Append(merged, Merged(hit.doc_id, contribution, "semantic"))

RECURSIVE MergeHits(_, _, _)
\* the merged set: the keyword hits, then the semantic hits one by one
MergeHits(keyword, semantic, n) ==
    IF n = 0 THEN KeywordEntries(keyword)
    ELSE MergeSemanticHit(MergeHits(keyword, semantic, n - 1), semantic[n], Len(keyword))

\* HybridRetriever.search: sort the merged set descending by combined score,
\* truncate to limit
RankedHits(merged, limit) == Truncate(SortByScore(merged), limit)

---------------------------------------------------------------------------
(* The state machine *)

\* queries submitted to process_request
RequestQueries == { <<"T","e","s","t">> }

\* arguments of direct update_context calls: query, response, agent
\* responses, tokens
DirectUpdates ==
    { <<"fix", "ok", <<>>, 100>>,
      <<"edit", "done",
        <<AgentResponse("9f0e-d4", "success", "done", <<"wrote a.py">>, 100,
                        <<ToolCall("file_operation", "write", "a.py", None)>>, <<>>)>>,
        100>> }

NoRequest ==
    [session_id |-> "", user_query |-> <<>>, agents |-> <<>>, responses |-> <<>>,
     final_response |-> "", summarize_calls |-> 0]

NoResult == [kind |-> "none", text |-> ""]

\* the coroutines of process_request that one event loop runs side by side
Tasks == 1..2

\* a coroutine that runs no request; sent is history: the recent_turns that
\* were serialized into the text of its summarization call and the turns the
\* previous summary quoted in that text accounted for
NoTask ==
    [pc |-> "idle", session_id |-> "", user_query |-> <<>>, agents |-> <<>>,
     responses |-> <<>>, sent |-> [turns |-> <<>>, covered |-> {}]]

NoCall == [op |-> "none", session_id |-> "", outcome |-> "", text |-> ""]

Call(op, s, outcome) == [op |-> op, session_id |-> s, outcome |-> outcome, text |-> ""]

\* the empty dict
EmptyDict == [x \in {} |-> x]

NoPre == [sessions |-> EmptyDict, disk |-> EmptyDict]

\* no HybridRetriever.search has returned
NoHits == [limit |-> 0, keyword |-> <<>>, semantic |-> <<>>, merged |-> <<>>, output |-> <<>>]

\* no get_agents_for_intent call since the registry last changed
NoResolve == [intent |-> None, result |-> <<>>, repeated |-> FALSE]

Idle == pc \in {"idle", "done"}

NoHistory == [n_updates |-> 0, summarized |-> FALSE]

\* a storage operation with this outcome is a failure
Fails(outcome) == outcome # "ok"

\* the failures of the storage are bounded
Storage(outcome) ==
    /\ Fails(outcome) => faults < MaxFaults
    /\ faults' = IF Fails(outcome) THEN faults + 1 ELSE faults

\* the history of the context get_context(s) returns
UpdatesAfterGet(s) ==
    IF s \in DOMAIN sessions THEN n_updates[s]
    ELSE IF LoadFromDisk(disk, s) # <<>> THEN disk_history[s].n_updates ELSE 0

SummarizedAfterGet(s) ==
    IF s \in DOMAIN sessions THEN summarized[s]
    ELSE IF LoadFromDisk(disk, s) # <<>> THEN disk_history[s].summarized ELSE FALSE

\* the history of the context in the file after a save
SavedHistory(s, outcome, n, m) ==
    IF outcome = "ok"
    THEN [disk_history EXCEPT ![s] = [n_updates |-> n, summarized |-> m]]
    ELSE disk_history

\* the state after construction over the session files d, whose history is h
ConstructedOver(d, h) ==
    /\ sessions = EmptyDict
    /\ disk = d
    /\ pc = "idle"
    /\ req = NoRequest
    /\ result = NoResult
    /\ classification = <<>>
    /\ clock = 0
    /\ last_call = NoCall
    /\ pre = NoPre
    /\ faults = 0
    /\ n_updates = [s \in KnownSessionIds |-> 0]
    /\ summarized = [s \in KnownSessionIds |-> FALSE]
    /\ disk_history = h
    /\ executed = <<>>
    /\ replies = <<>>
    /\ messages = <<>>
    /\ errored = {}
    /\ answers = EmptyDict
    /\ last_resolve = NoResolve
    /\ rows = <<>>
    /\ keyword_index = <<>>
    /\ last_id = 0
    /\ vectors = <<>>
    /\ hits = NoHits
    /\ tasks = [t \in Tasks |-> NoTask]
    /\ finished = <<>>
    /\ covered = [s \in KnownSessionIds |-> {}]

\* the state shared by the specifications after construction, without
\* session files
Constructed == ConstructedOver(EmptyDict, [s \in KnownSessionIds |-> NoHistory])

\* an Orchestrator, after __init__
Init ==
    /\ Constructed
    /\ recent_turns_to_keep \in 0..MaxK
    /\ client = OrchestratorClient
    /\ registry_agents = OrchestratorAgents
    /\ intent_mappings = DefaultIntentMappings

\* a ContextManager on its own, after __init__ with any client
InitManager ==
    /\ Constructed
    /\ recent_turns_to_keep \in 0..MaxK
    /\ client \in ClientKinds
    /\ registry_agents = <<>>
    /\ intent_mappings = <<>>

\* the intent tables of the registries under test: the one of __init__, and
\* a table a test puts in its place
RegistryTables ==
    { DefaultIntentMappings, << <<"ci_cd", <<"devops">>>> >> }

\* an AgentRegistry on its own, after __init__, with no agent registered
InitRegistry ==
    /\ Constructed
    /\ recent_turns_to_keep = MaxK
    /\ client = OrchestratorClient
    /\ registry_agents = <<>>
    /\ intent_mappings \in RegistryTables

\* what a direct call of the ContextManager leaves of the request state
BetweenRequests ==
    /\ pc' = "idle"
    /\ req' = NoRequest
    /\ pre' = NoPre
    /\ executed' = <<>>
    /\ replies' = <<>>
    /\ messages' = <<>>
    /\ classification' = <<>>
    /\ result' = NoResult
    /\ UNCHANGED <<recent_turns_to_keep, client, registry, memory, concurrent, errored>>

\* the history of the cached context of s after get_context(s)
HistoryAfterGet(s) ==
    /\ n_updates' = [n_updates EXCEPT ![s] = UpdatesAfterGet(s)]
    /\ summarized' = [summarized EXCEPT ![s] = SummarizedAfterGet(s)]

\* ContextManager.get_context(s)
CallGetContext(s) ==
    /\ Idle
    /\ sessions' = GetContext(sessions, disk, s)
    /\ last_call' = Call("get_context", s, "")
    /\ HistoryAfterGet(s)
    /\ BetweenRequests
    /\ UNCHANGED <<disk, clock, faults, disk_history>>

\* update_context on a copy of the context taken when the request began
UpdateSessions_OnCopy(s, user_query, assistant_response, agent_responses, tokens_used, now) ==
    LET ss == GetContext(sessions, disk, s)
        copy == GetContext(pre.sessions, pre.disk, s)
    IN [ss EXCEPT ![s] = UpdatedContext(copy[s], recent_turns_to_keep, user_query,
                                        assistant_response, agent_responses,
                                        tokens_used, now)]

\* update_context(s, ...) on the sessions dict and the files
UpdateSessions(s, user_query, assistant_response, agent_responses, tokens_used, now) ==
    LET ss == GetContext(sessions, disk, s) IN
    [ss EXCEPT ![s] = UpdatedContext(ss[s], recent_turns_to_keep, user_query,
                                     assistant_response, agent_responses,
                                     tokens_used, now)]

\* update_context that gives the turn up when the write of the file fails
UpdateContext_RollsBack(s, user_query, assistant_response, agent_responses, tokens_used, now, save) ==
    /\ Storage(save)
    /\ sessions' = IF Fails(save) THEN GetContext(sessions, disk, s)
                   ELSE UpdateSessions(s, user_query, assistant_response, agent_responses,
                                       tokens_used, now)
    /\ disk' = SaveToDisk(disk, sessions'[s], save)
    /\ n_updates' = [n_updates EXCEPT ![s] = UpdatesAfterGet(s) + 1]
    /\ summarized' = [summarized EXCEPT ![s] = SummarizedAfterGet(s)]
    /\ disk_history' = SavedHistory(s, save, UpdatesAfterGet(s) + 1, SummarizedAfterGet(s))
    /\ last_call' = Call("update_context", s, "")

\* update_context(s, ...): the context, the file and the history after it
UpdateContext(s, user_query, assistant_response, agent_responses, tokens_used, now, save) ==
    /\ Storage(save)
    /\ sessions' = UpdateSessions(s, user_query, assistant_response, agent_responses,
                                  tokens_used, now)
    /\ disk' = SaveToDisk(disk, sessions'[s], save)
    /\ n_updates' = [n_updates EXCEPT ![s] = UpdatesAfterGet(s) + 1]
    /\ summarized' = [summarized EXCEPT ![s] = SummarizedAfterGet(s)]
    /\ disk_history' = SavedHistory(s, save, UpdatesAfterGet(s) + 1, SummarizedAfterGet(s))
    /\ last_call' = Call("update_context", s, "")

\* ContextManager.update_context(s, ...)
CallUpdateContext(s, u, save) ==
    /\ Idle
    /\ clock < MaxUpdates
    /\ clock' = clock + 1
    /\ UpdateContext(s, u[1], u[2], u[3], u[4], clock + 1, save)
    /\ BetweenRequests

\* ContextManager.should_summarize(s)
CallShouldSummarize(s) ==
    /\ Idle
    /\ sessions' = GetContext(sessions, disk, s)
    /\ last_call' = Call("should_summarize", s,
                         IF ShouldSummarize(sessions'[s]) THEN "true" ELSE "false")
    /\ HistoryAfterGet(s)
    /\ BetweenRequests
    /\ UNCHANGED <<disk, clock, faults, disk_history>>

SummarizeOutcome(reply) == IF SummarizeSucceeds(client, reply) THEN "ok" ELSE "failed"

\* summarize_context(s) on the sessions dict and the files
SummarizeContext(s, reply, save) ==
    LET ss == GetContext(sessions, disk, s) IN
    /\ last_call' = [Call("summarize_context", s, SummarizeOutcome(reply)) EXCEPT
                        !.text = IF SummarizeSucceeds(client, reply)
                                 THEN reply.content[1] ELSE ""]
    /\ n_updates' = [n_updates EXCEPT ![s] = UpdatesAfterGet(s)]
    /\ IF SummarizeSucceeds(client, reply)
       THEN /\ Storage(save)
            /\ sessions' = [ss EXCEPT ![s] = SummarizedContext(ss[s], reply)]
            /\ disk' = SaveToDisk(disk, sessions'[s], save)
            /\ summarized' = [summarized EXCEPT ![s] = TRUE]
            /\ disk_history' = SavedHistory(s, save, UpdatesAfterGet(s), TRUE)
       ELSE /\ save = "ok"
            /\ sessions' = [ss EXCEPT ![s] = SummarizeFailedContext(ss[s])]
            /\ summarized' = [summarized EXCEPT ![s] = SummarizedAfterGet(s)]
            /\ UNCHANGED <<disk, faults, disk_history>>

\* ContextManager.summarize_context(s)
CallSummarizeContext(s, reply, save) ==
    /\ Idle
    /\ SummarizeContext(s, reply, save)
    /\ BetweenRequests
    /\ UNCHANGED clock

\* ContextManager.clear_session(s)
CallClearSession(s, unlink) ==
    /\ Idle
    /\ s \in DOMAIN sessions \/ s \in DOMAIN disk
    /\ s \in DOMAIN disk => Storage(unlink)
    /\ s \notin DOMAIN disk => unlink = "ok" /\ faults' = faults
    /\ sessions' = ClearedSessions(sessions, s)
    /\ disk' = ClearedDisk(disk, s, unlink = "ok")
    /\ n_updates' = [n_updates EXCEPT ![s] = 0]
    /\ summarized' = [summarized EXCEPT ![s] = FALSE]
    /\ last_call' = Call("clear_session", s, "")
    /\ BetweenRequests
    /\ UNCHANGED <<clock, disk_history>>

\* a new process: ContextManager.__init__ starts with an empty sessions dict
\* over the session files the previous process left
Restart ==
    /\ Idle
    /\ DOMAIN sessions # {}
    /\ sessions' = EmptyDict
    /\ n_updates' = [s \in KnownSessionIds |-> 0]
    /\ summarized' = [s \in KnownSessionIds |-> FALSE]
    /\ last_call' = NoCall
    /\ BetweenRequests
    /\ UNCHANGED <<disk, clock, faults, disk_history>>

\* process_request up to the classification call: step 1, get_context
StartRequest(s, q) ==
    /\ Idle
    /\ clock < MaxRequests
    /\ clock' = clock + 1
    /\ sessions' = GetContext(sessions, disk, s)
    /\ HistoryAfterGet(s)
    /\ req' = [NoRequest EXCEPT !.session_id = s, !.user_query = q]
    /\ pc' = "classify"
    /\ pre' = [sessions |-> sessions, disk |-> disk]
    /\ executed' = <<>>
    /\ replies' = <<>>
    /\ messages' = <<>>
    /\ result' = NoResult
    /\ classification' = <<>>
    /\ last_call' = Call("get_context", s, "")
    /\ UNCHANGED <<recent_turns_to_keep, client, registry, memory, concurrent, disk, faults, disk_history, errored>>

\* the request ends with the value r
Returns(r) ==
    /\ pc' = "done"
    /\ result' = r
    /\ errored' = IF r.kind = "error" THEN errored \cup {req.session_id} ELSE errored

\* process_request, steps 2 to 4: _classify_intent returns, the agents are
\* resolved; iterating over agents = None raises a TypeError
ClassifyStep(reply) ==
    /\ pc = "classify"
    /\ LET c == ClassifyIntent(req.user_query, reply) IN
         /\ classification' = <<c>>
         /\ IF c.agents.type # "list"
            THEN /\ Returns(ErrorResponse("'NoneType' object is not iterable"))
                 /\ req' = req
            ELSE IF ResolveAgents(c.agents.items) = <<>>
            THEN /\ Returns(CannotRoute)
                 /\ req' = req
            ELSE /\ pc' = "execute"
                 /\ req' = [req EXCEPT !.agents = ResolveAgents(c.agents.items)]
                 /\ UNCHANGED <<result, errored>>
    /\ UNCHANGED <<recent_turns_to_keep, client, registry, memory, concurrent, sessions, disk, clock, last_call, pre,
                   faults, n_updates, summarized, disk_history, executed, replies, messages>>

\* _execute_agents that returns after its first agent, whatever its status
ExecuteStep_ReturnsEarly(reply) ==
    /\ pc = "execute"
    /\ LET i == Len(req.responses) + 1
           response == Execute(TaskId(i), reply)
       IN /\ req' = [req EXCEPT !.responses = Append(@, response)]
          /\ executed' = Append(executed, req.agents[i])
          /\ replies' = Append(replies, reply)
          /\ messages' = Append(messages, BuildMessages(QueryText(req.user_query),
                                                      sessions[req.session_id]))
          /\ pc' = "aggregate"
    /\ UNCHANGED <<recent_turns_to_keep, client, registry, memory, concurrent, sessions, disk, result, classification,
                   clock, last_call, pre, faults, n_updates, summarized,
                   disk_history, errored>>

\* _execute_agents: one turn of the loop, agent.execute returns
ExecuteStep(reply) ==
    /\ pc = "execute"
    /\ LET i == Len(req.responses) + 1
           response == Execute(TaskId(i), reply)
       IN /\ req' = [req EXCEPT !.responses = Append(@, response)]
          /\ executed' = Append(executed, req.agents[i])
          /\ replies' = Append(replies, reply)
          /\ messages' = Append(messages, BuildMessages(QueryText(req.user_query),
                                                      sessions[req.session_id]))
          /\ pc' = IF ContinuesAfter(response) /\ i < Len(req.agents)
                   THEN "execute" ELSE "aggregate"
    /\ UNCHANGED <<recent_turns_to_keep, client, registry, memory, concurrent, sessions, disk, result, classification,
                   clock, last_call, pre, faults, n_updates, summarized,
                   disk_history, errored>>

\* process_request, steps 6 to 9: aggregation, token total, update_context
\* and the should_summarize test
UpdateStep(save) ==
    /\ pc = "aggregate"
    /\ LET final_response == AggregateResponses(req.responses)
           total_tokens == SumTokens(req.responses)
       IN /\ UpdateContext(req.session_id, QueryText(req.user_query), final_response,
                           req.responses, total_tokens, clock, save)
          /\ req' = [req EXCEPT !.final_response = final_response]
          /\ IF ShouldSummarize(sessions'[req.session_id])
             THEN /\ pc' = "summarize"
                  /\ UNCHANGED <<result, errored>>
             ELSE Returns(Response(final_response))
    /\ UNCHANGED <<recent_turns_to_keep, client, registry, memory, concurrent, classification, clock, pre, executed, replies, messages>>

\* process_request that tries the summarization again until it succeeds
SummarizeStep_Retries(reply, save) ==
    /\ pc = "summarize"
    /\ SummarizeContext(req.session_id, reply, save)
    /\ IF SummarizeSucceeds(client, reply)
       THEN /\ req' = [req EXCEPT !.summarize_calls = 1]
            /\ Returns(Response(req.final_response))
       ELSE /\ req' = [req EXCEPT !.summarize_calls = 1]
            /\ UNCHANGED <<pc, result, errored>>
    /\ UNCHANGED <<recent_turns_to_keep, client, registry, memory, concurrent, classification, clock, pre, executed, replies, messages>>

\* process_request, step 9: summarize_context returns
SummarizeStep(reply, save) ==
    /\ pc = "summarize"
    /\ SummarizeContext(req.session_id, reply, save)
    /\ req' = [req EXCEPT !.summarize_calls = @ + 1]
    /\ Returns(Response(req.final_response))
    /\ UNCHANGED <<recent_turns_to_keep, client, registry, memory, concurrent, classification, clock, pre, executed, replies, messages>>

\* the agents a program registers
AgentNames == {"coder", "devops", "qa_checker"}

\* the arguments of add_intent_mapping calls
NewMappings ==
    { <<"Doc", <<"planner">>>>, <<"review", <<"qa_checker", "coder">>>> }

\* the intents get_agents_for_intent is asked for
ResolveIntents == {" Code_Review ", "review", "doc", "cicd_pipeline"}

\* everything but the registry and the clock
application ==
    <<recent_turns_to_keep, client, sessions, disk, pc, req, result, classification,
      last_call, pre, faults, n_updates, summarized, disk_history, executed, replies,
      messages, errored>>

\* AgentRegistry.register_agent(agent, capabilities)
RegisterAgent(name) ==
    /\ clock < MaxRegistryCalls
    /\ clock' = clock + 1
    /\ registry_agents' = RegisteredNames(registry_agents, name)
    /\ answers' = EmptyDict
    /\ last_resolve' = NoResolve
    /\ UNCHANGED <<intent_mappings, application, memory, concurrent>>

\* AgentRegistry.add_intent_mapping(intent, agent_names)
AddIntentMapping(m) ==
    /\ clock < MaxRegistryCalls
    /\ clock' = clock + 1
    /\ intent_mappings' = AddedMapping(intent_mappings, m[1], m[2])
    /\ answers' = EmptyDict
    /\ last_resolve' = NoResolve
    /\ UNCHANGED <<registry_agents, application, memory, concurrent>>

\* get_agents_for_intent that takes the exact key out of the table
Resolve_TakesKey(intent) ==
    LET found == GetAgentsForIntent(registry_agents, intent_mappings, intent) IN
    /\ last_resolve' = [intent |-> intent, result |-> found,
                        repeated |-> intent \in DOMAIN answers]
    /\ answers' = [x \in DOMAIN answers \cup {intent} |->
                      IF x = intent THEN found ELSE answers[x]]
    /\ intent_mappings' = SelectSeq(intent_mappings,
                                    LAMBDA m : m[1] # Strip(LowerStr(intent)))
    /\ UNCHANGED <<registry_agents, clock, application, memory, concurrent>>

\* AgentRegistry.get_agents_for_intent(intent)
Resolve(intent) ==
    LET found == GetAgentsForIntent(registry_agents, intent_mappings, intent) IN
    /\ last_resolve' = [intent |-> intent, result |-> found,
                        repeated |-> intent \in DOMAIN answers]
    /\ answers' = [x \in DOMAIN answers \cup {intent} |->
                      IF x = intent THEN found ELSE answers[x]]
    /\ UNCHANGED <<registry_agents, intent_mappings, clock, application, memory, concurrent>>

\* the calls of a program that uses an AgentRegistry directly
NextRegistry ==
    \/ \E name \in AgentNames : RegisterAgent(name)
    \/ \E m \in NewMappings : AddIntentMapping(m)
    \/ \E intent \in ResolveIntents : Resolve(intent)

SpecRegistry == InitRegistry /\ [][NextRegistry]_vars

\* the sessions that append to the MemoryStore
MemorySessions == {"s1", "s2"}

\* keyword relevance of a new row for the query
Relevances == 0..2

\* cosine similarities of a new vector to the query, in tenths
Similarities == {2, 10}

\* the limits HybridRetriever.search is called with
SearchLimits == 1..2

\* a MemoryStore and a VectorIndex on their own, both empty
InitMemory ==
    /\ Constructed
    /\ recent_turns_to_keep = MaxK
    /\ client = OrchestratorClient
    /\ registry_agents = <<>>
    /\ intent_mappings = <<>>

\* MemoryStore.add(sessionId, type, content): one logical write that assigns
\* the id, persists the row and updates the keyword index
MemoryAdd(session_id, relevance) ==
    /\ last_id < MaxRows
    /\ last_id' = last_id + 1
    /\ rows' = AddedRow(rows, last_id + 1, session_id, relevance)
    /\ keyword_index' = AddedIndexEntry(keyword_index, last_id + 1)
    /\ UNCHANGED <<vectors, hits, registry, clock, application, concurrent>>

\* VectorIndex.add(text, docId): a no-op without the embedding capability
VectorAdd(doc_id, similarity, available) ==
    /\ \E i \in 1..Len(rows) : rows[i].id = doc_id
    /\ \A i \in 1..Len(vectors) : vectors[i].doc_id # doc_id
    /\ vectors' = IF available THEN Append(vectors, Hit(doc_id, similarity)) ELSE vectors
    /\ UNCHANGED <<rows, keyword_index, last_id, hits, registry, clock, application, concurrent>>

\* HybridRetriever.search(query, limit)
HybridSearch(limit, available) ==
    LET keyword == SearchKeyword(rows, keyword_index, 2 * limit)
        semantic == VectorSearch(vectors, 2 * limit, available)
        merged == MergeHits(keyword, semantic, Len(semantic))
    IN /\ hits' = [limit |-> limit, keyword |-> keyword, semantic |-> semantic,
                   merged |-> merged, output |-> RankedHits(merged, limit)]
       /\ UNCHANGED <<rows, keyword_index, last_id, vectors, registry, clock, application, concurrent>>

\* the calls of the sessions that use the memory
NextMemory ==
    \/ \E session_id \in MemorySessions, relevance \in Relevances :
           MemoryAdd(session_id, relevance)
    \/ \E doc_id \in 1..MaxRows, similarity \in Similarities, available \in BOOLEAN :
           VectorAdd(doc_id, similarity, available)
    \/ \E limit \in SearchLimits, available \in BOOLEAN : HybridSearch(limit, available)

SpecMemory == InitMemory /\ [][NextMemory]_vars

\* the recent turns of a session after n requests
PastTurns(n) ==
    [i \in 1..n |-> ConversationTurn("q" \o Digits[i + 1], "a" \o Digits[i + 1], i, 100)]

\* the contexts of sessions earlier requests left in their files: up to
\* recent_turns_to_keep turns, with and without a summary and an active file
AgentContexts ==
    { [ContextSummary("s1") EXCEPT !.conversation_summary = summary,
                                   !.recent_turns = PastTurns(n),
                                   !.active_files = files,
                                   !.total_tokens_used = 100 * n] :
          summary \in {"", "S1"}, n \in 0..MaxK,
          files \in {<<>>, << <<"a.py", "Modified by 9f0e-d4">> >>} }

\* the query of the tasks given to the agents
TaskQuery == "Test"

\* the agents of an Orchestrator on their own, over the file of such a session
InitAgent ==
    \E context \in AgentContexts :
        /\ ConstructedOver(SaveToDisk(EmptyDict, context, "ok"),
                           [s \in KnownSessionIds |->
                               IF s = "s1"
                               THEN [n_updates |-> Len(context.recent_turns),
                                     summarized |-> context.conversation_summary # ""]
                               ELSE NoHistory])
        /\ recent_turns_to_keep = MaxK
        /\ client = OrchestratorClient
        /\ registry_agents = OrchestratorAgents
        /\ intent_mappings = DefaultIntentMappings

\* agent.execute(task, context, tools) of the agent called name on the
\* context of session s, as _execute_agents calls it: the reply is what its
\* LLM call does
AgentExecute(name, s, reply) ==
    /\ s \in DOMAIN sessions
    /\ Len(replies) < MaxExecutions
    /\ req' = [req EXCEPT !.responses = Append(@, Execute(TaskId(Len(replies) + 1), reply))]
    /\ executed' = Append(executed, name)
    /\ replies' = Append(replies, reply)
    /\ messages' = Append(messages, BuildMessages(TaskQuery, sessions[s]))
    /\ UNCHANGED <<recent_turns_to_keep, client, registry, memory, concurrent, sessions, disk, pc, result,
                   classification, clock, last_call, pre, faults, n_updates, summarized,
                   disk_history, errored>>

\* the calls of a program that runs agents directly: the context is the one
\* get_context returns
NextAgent ==
    \/ \E s \in SessionIds : CallGetContext(s)
    \/ \E name \in RegisteredAgents, s \in SessionIds, reply \in AgentReplies \cup MalformedReplies :
          AgentExecute(name, s, reply)

SpecAgent == InitAgent /\ [][NextAgent]_vars

\* the texts a user types or passes with -q, and a caller hands to
\* process_request: one within the length limit, one over it, and one with a
\* null byte and a space around an exit word
BoundaryQueries == { <<"T","e","s","t">>, <<"T","e","s","t","s">>, <<"NUL","q"," ">> }

\* an Orchestrator as main.py builds it, with the default settings
InitBoundary ==
    /\ Constructed
    /\ recent_turns_to_keep = MaxK
    /\ client = OrchestratorClient
    /\ registry_agents = OrchestratorAgents
    /\ intent_mappings = DefaultIntentMappings

\* main.py, single query mode: sanitize_input, then process_request; the
\* ValueError of sanitize_input ends main
SingleQueryMode(s, q) ==
    IF SanitizeInput(q) = <<>>
    THEN /\ Idle
         /\ clock < MaxRequests
         /\ clock' = clock + 1
         /\ pc' = "done"
         /\ req' = NoRequest
         /\ result' = [kind |-> "raised", text |-> "Input too long"]
         /\ classification' = <<>>
         /\ executed' = <<>>
         /\ replies' = <<>>
         /\ messages' = <<>>
         /\ pre' = NoPre
         /\ UNCHANGED <<recent_turns_to_keep, client, registry, memory, concurrent, sessions, disk, last_call,
                        faults, n_updates, summarized, disk_history, errored>>
    ELSE StartRequest(s, SanitizeInput(q)[1])

\* main.py, interactive_mode: one line of input; an empty line and the exit
\* words start no request
InteractiveInput(s, line) ==
    LET user_input == StripChars(line) IN
    /\ user_input # <<>>
    /\ Lower(user_input) \notin ExitWords
    /\ StartRequest(s, user_input)

\* the entries of the application and the steps of a request
NextBoundary ==
    \/ \E s \in SessionIds, q \in BoundaryQueries : SingleQueryMode(s, q)
    \/ \E s \in SessionIds, line \in BoundaryQueries : InteractiveInput(s, line)
    \/ \E s \in UnsafeSessionIds, q \in RequestQueries : StartRequest(s, q)
    \/ \E reply \in ClassifyReplies : ClassifyStep(reply)
    \/ \E reply \in AgentReplies : ExecuteStep(reply)
    \/ \E save \in SaveOutcomes : UpdateStep(save)
    \/ \E reply \in SummaryReplies, save \in SaveOutcomes : SummarizeStep(reply, save)

SpecBoundary == InitBoundary /\ [][NextBoundary]_vars

\* the task history of a session that has taken n actions, the oldest first
LongHistory(n) == [i \in 1..n |-> IF i = 1 THEN "" ELSE "t"]

\* the contexts of sessions earlier processes left in their files: with and
\* without a summary, with a task history shorter and longer than the part
\* _build_full_context shows
LongSessions ==
    { [ContextSummary("s1") EXCEPT !.conversation_summary = summary,
                                   !.task_history = LongHistory(n)] :
          summary \in {"", "S1"}, n \in {0, RecentTasksShown - 1, RecentTasksShown + 1} }

\* a ContextManager on its own, after __init__, over the file of such a session
InitLongSession ==
    \E context \in LongSessions :
        /\ ConstructedOver(SaveToDisk(EmptyDict, context, "ok"),
                           [s \in KnownSessionIds |->
                               IF s = "s1"
                               THEN [n_updates |-> Len(context.task_history),
                                     summarized |-> context.conversation_summary # ""]
                               ELSE NoHistory])
        /\ recent_turns_to_keep = MaxK
        /\ client \in ClientKinds
        /\ registry_agents = <<>>
        /\ intent_mappings = <<>>

\* queries that mention none, one and two of the keyword groups of the
\* fallback classification
FallbackQueries ==
    { <<"f","i","x">>, <<"T","e","s","t">>, <<"S","P","E","C">>, <<"l","i","n","t">>,
      <<"d","o","c","s">>,
      <<"s","p","e","c"," ","t","e","s","t">>,
      <<"d","o","c","s"," ","j","i","r","a">>,
      <<"r","e","a","d","m","e"," ","c","h","e","c","k">> }

\* the outcomes of the classification LLM call that lead to the fallback
FallbackReplies == {reply \in ClassifyReplies : reply.kind # "json"}

\* an Orchestrator, after __init__ with the default settings
InitFallback ==
    /\ Constructed
    /\ recent_turns_to_keep = MaxK
    /\ client = OrchestratorClient
    /\ registry_agents = OrchestratorAgents
    /\ intent_mappings = DefaultIntentMappings

\* requests whose classification call fails or answers without JSON
NextFallback ==
    \/ \E s \in SessionIds, q \in FallbackQueries : StartRequest(s, q)
    \/ \E reply \in FallbackReplies : ClassifyStep(reply)
    \/ \E reply \in AgentReplies : ExecuteStep(reply)
    \/ \E save \in SaveOutcomes : UpdateStep(save)
    \/ \E reply \in SummaryReplies, save \in SaveOutcomes : SummarizeStep(reply, save)

SpecFallback == InitFallback /\ [][NextFallback]_vars

---------------------------------------------------------------------------
(* Several process_request coroutines on one event loop.  A coroutine runs
   without interruption from one await of an LLM call to the next: the
   classification call, the call of each agent, the summarization call. *)

\* the client of the ContextManager: the ModelRouter the Orchestrator passes,
\* or a client put in its place
InitConcurrent ==
    /\ Constructed
    /\ recent_turns_to_keep \in 0..MaxK
    /\ client \in {OrchestratorClient, "AsyncAnthropic"}
    /\ registry_agents = OrchestratorAgents
    /\ intent_mappings = DefaultIntentMappings

\* the requests started so far
Started == Len(finished) + Cardinality({t \in Tasks : tasks[t].pc # "idle"})

\* summarize_context reaches a suspension point: the await of
\* client.messages.create yields only when the call returns an awaitable
Suspends(c) == c = "AsyncAnthropic"

\* what is kept of a request that returned
Outcome(t, kind, updated) ==
    [session_id |-> tasks[t].session_id, kind |-> kind, updated |-> updated,
     tokens |-> 0, actions |-> <<>>]

\* the coroutine t returns: its locals are gone
TaskReturns(t, outcome) ==
    /\ tasks' = [tasks EXCEPT ![t] = NoTask]
    /\ finished' = Append(finished, outcome)

\* the timestamps of turns
Stamps(turns) == {turns[i].timestamp : i \in 1..Len(turns)}

\* what the main coroutine's variables are while the tasks run
MainIdle == UNCHANGED <<pc, req, result, classification, executed, replies, messages, errored>>

\* process_request, step 1 and the start of the classification call; of the
\* coroutines that run no request the first takes the next one
TaskStart(t, s, q) ==
    /\ tasks[t].pc = "idle"
    /\ \A u \in Tasks : tasks[u].pc = "idle" => t <= u
    /\ Started < MaxConcurrentRequests
    /\ sessions' = GetContext(sessions, disk, s)
    /\ HistoryAfterGet(s)
    /\ pre' = [sessions |-> sessions, disk |-> disk]
    /\ last_call' = Call("get_context", s, "")
    /\ tasks' = [tasks EXCEPT ![t] = [NoTask EXCEPT !.pc = "classify", !.session_id = s,
                                                     !.user_query = q]]
    /\ MainIdle
    /\ UNCHANGED <<recent_turns_to_keep, client, registry, memory, disk, clock, faults,
                   disk_history, finished, covered>>

\* process_request, steps 2 to 4 and the start of the first agent's call
TaskClassify(t, reply) ==
    /\ tasks[t].pc = "classify"
    /\ LET c == ClassifyIntent(tasks[t].user_query, reply) IN
         IF c.agents.type # "list"
         THEN TaskReturns(t, Outcome(t, "error", FALSE))
         ELSE IF ResolveAgents(c.agents.items) = <<>>
         THEN TaskReturns(t, Outcome(t, "cannot_route", FALSE))
         ELSE /\ tasks' = [tasks EXCEPT ![t].pc = "execute",
                                        ![t].agents = ResolveAgents(c.agents.items)]
              /\ UNCHANGED finished
    /\ MainIdle
    /\ UNCHANGED <<recent_turns_to_keep, client, registry, memory, sessions, disk, clock,
                   last_call, pre, faults, n_updates, summarized, disk_history, covered>>

\* process_request from the return of an agent's call to the next await: the
\* next agent's call, or steps 6 to 9 up to the await of the summarization
\* call, or the return
TaskExecute(t, reply, save) ==
    /\ tasks[t].pc = "execute"
    /\ LET s == tasks[t].session_id
           i == Len(tasks[t].responses) + 1
           response == Execute(TaskId(i), reply)
           responses == Append(tasks[t].responses, response)
           final_response == AggregateResponses(responses)
           total_tokens == SumTokens(responses)
       IN IF ContinuesAfter(response) /\ i < Len(tasks[t].agents)
          THEN /\ save = "ok"
               /\ tasks' = [tasks EXCEPT ![t].responses = responses]
               /\ UNCHANGED <<sessions, disk, clock, last_call, faults, n_updates,
                              summarized, disk_history, finished>>
          ELSE /\ clock' = clock + 1
               /\ UpdateContext(s, QueryText(tasks[t].user_query), final_response,
                                responses, total_tokens, clock + 1, save)
               /\ IF ShouldSummarize(sessions'[s]) /\ Suspends(client)
                  THEN /\ tasks' = [tasks EXCEPT
                                      ![t].pc = "summarize",
                                      ![t].responses = responses,
                                      ![t].sent = [turns |-> sessions'[s].recent_turns,
                                                   covered |-> covered[s]]]
                       /\ UNCHANGED finished
                  ELSE TaskReturns(t, [Outcome(t, "response", TRUE) EXCEPT
                                         !.tokens = total_tokens,
                                         !.actions = Flatten([j \in 1..Len(responses) |->
                                                        responses[j].actions_taken])])
    /\ MainIdle
    /\ UNCHANGED <<recent_turns_to_keep, client, registry, memory, pre, covered>>

\* summarize_context from the return of its call, and the return of the
\* request
TaskSummarized(t, reply, save) ==
    /\ tasks[t].pc = "summarize"
    /\ LET s == tasks[t].session_id
           responses == tasks[t].responses
       IN /\ SummarizeContext(s, reply, save)
          /\ covered' = IF SummarizeSucceeds(client, reply)
                        THEN [covered EXCEPT ![s] = tasks[t].sent.covered
                                                    \cup Stamps(tasks[t].sent.turns)]
                        ELSE covered
          /\ TaskReturns(t, [Outcome(t, "response", TRUE) EXCEPT
                               !.tokens = SumTokens(responses),
                               !.actions = Flatten([j \in 1..Len(responses) |->
                                              responses[j].actions_taken])])
    /\ MainIdle
    /\ UNCHANGED <<recent_turns_to_keep, client, registry, memory, clock, pre>>

\* the replies of the classification call after which a request calls at most
\* one agent: the request then has one more suspension point before its
\* update_context
ConcurrentClassifyReplies ==
    {reply \in ClassifyReplies :
        \A q \in RequestQueries :
            LET c == ClassifyIntent(q, reply) IN
            c.agents.type = "list" => Len(ResolveAgents(c.agents.items)) <= 1}

\* the coroutines take turns at their suspension points
NextConcurrent ==
    \/ \E t \in Tasks, s \in SessionIds, q \in RequestQueries : TaskStart(t, s, q)
    \/ \E t \in Tasks, reply \in ConcurrentClassifyReplies : TaskClassify(t, reply)
    \/ \E t \in Tasks, reply \in AgentReplies, save \in SaveOutcomes :
           TaskExecute(t, reply, save)
    \/ \E t \in Tasks, reply \in SummaryReplies, save \in SaveOutcomes :
           TaskSummarized(t, reply, save)

SpecConcurrent == InitConcurrent /\ [][NextConcurrent]_vars

\* the calls of a program that uses a ContextManager directly
NextManager ==
    \/ \E s \in SessionIds : CallGetContext(s)
    \/ \E s \in SessionIds, u \in DirectUpdates, save \in SaveOutcomes :
          CallUpdateContext(s, u, save)
    \/ \E s \in SessionIds : CallShouldSummarize(s)
    \/ \E s \in SessionIds, reply \in SummaryReplies, save \in SaveOutcomes :
          CallSummarizeContext(s, reply, save)
    \/ \E s \in SessionIds, unlink \in {"ok", "no_write"} : CallClearSession(s, unlink)
    \/ Restart

SpecManager == InitManager /\ [][NextManager]_vars

SpecLongSession == InitLongSession /\ [][NextManager]_vars

\* the steps of the application: main.py only calls process_request
Next ==
    \/ \E s \in SessionIds, q \in RequestQueries : StartRequest(s, q)
    \/ \E reply \in ClassifyReplies : ClassifyStep(reply)
    \/ \E reply \in AgentReplies : ExecuteStep(reply)
    \/ \E save \in SaveOutcomes : UpdateStep(save)
    \/ \E reply \in SummaryReplies, save \in SaveOutcomes : SummarizeStep(reply, save)
    \/ Restart

Spec == Init /\ [][Next]_vars

\* every LLM call and every storage operation of a request in flight
\* eventually returns or fails, so the coroutine takes its next step
RequestProgress ==
    /\ WF_vars(\E reply \in ClassifyReplies : ClassifyStep(reply))
    /\ WF_vars(\E reply \in AgentReplies : ExecuteStep(reply))
    /\ WF_vars(\E save \in SaveOutcomes : UpdateStep(save))
    /\ WF_vars(\E reply \in SummaryReplies, save \in SaveOutcomes : SummarizeStep(reply, save))

SpecLive == Init /\ [][Next]_vars /\ RequestProgress

---------------------------------------------------------------------------
(* Properties *)

\* the context of the session the last ContextManager call was about
LastContext == sessions[last_call.session_id]

UpdateReturned == last_call.op = "update_context"

\* C1: each time update_context returns, the session holds at most
\* recent_turns_to_keep recent turns, whatever the configured value is.
C1_TurnWindowBounded ==
    UpdateReturned => Len(LastContext.recent_turns) <= recent_turns_to_keep

\* C2 as stated, for the configurations with recent_turns_to_keep >= 1: after
\* the N-th update of a session that started without turns, the session
\* holds exactly min(N, K) recent turns.
C2_TurnCountIsMin ==
    (UpdateReturned /\ recent_turns_to_keep >= 1) =>
        Len(LastContext.recent_turns)
            = Min(n_updates[last_call.session_id], recent_turns_to_keep)

\* C2, amended: after the N-th update the session holds at least one and at
\* most N recent turns, at most min(N, K) of them when K >= 1, and exactly
\* min(N, K) as long as no summarization has succeeded on the session.
C2_TurnCountAtMostMin ==
    UpdateReturned =>
        LET n == n_updates[last_call.session_id]
            len == Len(LastContext.recent_turns)
        IN /\ len >= 1
           /\ len <= n
           /\ recent_turns_to_keep >= 1 => len <= Min(n, recent_turns_to_keep)
           /\ (recent_turns_to_keep >= 1 /\ ~summarized[last_call.session_id])
                 => len = Min(n, recent_turns_to_keep)

\* C2 witness: the third update of a session with K = 3 returns with two
\* turns, because a summarization had collapsed the first two into one.
C2_Witness ==
    /\ UpdateReturned
    /\ recent_turns_to_keep = 3
    /\ n_updates[last_call.session_id] = 3
    /\ summarized[last_call.session_id]
    /\ Len(LastContext.recent_turns) = 2

\* C3: the summary of a session is non-empty exactly when a summarization
\* has succeeded on the session.
C3_SummaryIffSummarized ==
    \A s \in DOMAIN sessions :
        (sessions[s].conversation_summary # "") <=> summarized[s]

\* C4: every classification _classify_intent returns has a non-empty list
\* of agents and a confidence between 0 and 1.
C4_ClassificationValid ==
    classification # <<>> =>
        /\ classification[1].agents.type = "list"
        /\ classification[1].agents.items # <<>>
        /\ classification[1].confidence >= 0
        /\ classification[1].confidence <= 10

CannotRouteReturned == pc = "done" /\ result.kind = "cannot_route"

\* C5 as stated: a request that gets the cannot-route answer has executed no
\* agent and leaves the sessions dict, the membership of the session
\* included, and the session files as they were before the request.
C5_CannotRouteTouchesNothing ==
    CannotRouteReturned =>
        /\ executed = <<>>
        /\ sessions = pre.sessions
        /\ disk = pre.disk

\* C5, amended: a request that gets the cannot-route answer has executed no
\* agent, leaves the session files and every cached context as they were,
\* and enters a session that was not cached into the cache, as loaded from
\* its file or else empty.
C5_CannotRouteKeepsContexts ==
    CannotRouteReturned =>
        LET s == req.session_id IN
        /\ executed = <<>>
        /\ req.responses = <<>>
        /\ disk = pre.disk
        /\ DOMAIN sessions = DOMAIN pre.sessions \cup {s}
        /\ \A x \in DOMAIN pre.sessions : sessions[x] = pre.sessions[x]
        /\ s \notin DOMAIN pre.sessions =>
              IF s \in DOMAIN pre.disk /\ pre.disk[s].valid
              THEN ContextDict(sessions[s]) = pre.disk[s].data
              ELSE sessions[s] = ContextSummary(s)

\* C5 witness: the cannot-route answer for a session that was cached with a
\* turn before the request.
C5_Witness ==
    /\ CannotRouteReturned
    /\ req.session_id \in DOMAIN pre.sessions
    /\ pre.sessions[req.session_id].recent_turns # <<>>

ExecutionEnded == pc \in {"aggregate", "summarize", "done"} /\ req.agents # <<>>

\* C6: the agents of a request run one at a time in the order of the
\* classification, none runs after an agent that failed, and the responses
\* are those of the executed prefix up to and including the first failure.
C6_FailFastPrefix ==
    /\ Len(req.responses) = Len(executed)
    /\ Len(executed) <= Len(req.agents)
    /\ \A i \in 1..Len(executed) : executed[i] = req.agents[i]
    /\ \A i \in 1..(Len(req.responses) - 1) : req.responses[i].status # "failed"
    /\ (classification # <<>> /\ req.agents # <<>>) =>
          req.agents = SelectSeq(classification[1].agents.items,
                                 LAMBDA a : a \in RegisteredAgents)
    /\ ExecutionEnded =>
          /\ Len(req.responses) >= 1
          /\ \/ Len(req.responses) = Len(req.agents)
             \/ req.responses[Len(req.responses)].status = "failed"

\* C6 witness: agent 2 of 3 failed and the request ended with 2 responses,
\* one success and one failure.
C6_Witness ==
    /\ pc = "done"
    /\ Len(req.agents) = 3
    /\ Len(req.responses) = 2
    /\ req.responses[1].status = "success"
    /\ req.responses[2].status = "failed"

\* total_tokens_used of the context the request in flight works on
RequestTotal == sessions[req.session_id].total_tokens_used

\* total_tokens_used the context of the request had when the request began
TotalAtStart ==
    LET s == req.session_id IN
    IF s \in DOMAIN pre.sessions THEN pre.sessions[s].total_tokens_used
    ELSE IF s \in DOMAIN pre.disk /\ pre.disk[s].valid
    THEN pre.disk[s].data.total_tokens_used
    ELSE 0

RECURSIVE ReportedTokens(_, _)
\* the tokens_used the first n responses report, added up
ReportedTokens(rs, n) ==
    IF n = 0 THEN 0 ELSE rs[n].tokens_used + ReportedTokens(rs, n - 1)

\* C7: a request that executed at least one agent ends with the session's
\* total_tokens_used raised by exactly the tokens its executed agents
\* reported, also when a failure cut the chain short; no step lowers the
\* total of a cached context, and the summarization step leaves it as it is.
C7_TokenAccounting ==
    /\ [](pc \in {"summarize", "done"} /\ executed # <<>> =>
            /\ result.kind \in {"none", "response"}
            /\ RequestTotal = TotalAtStart
                                + ReportedTokens(req.responses, Len(req.responses)))
    /\ [][/\ \A s \in DOMAIN sessions \cap DOMAIN sessions' :
                sessions'[s].total_tokens_used >= sessions[s].total_tokens_used
          /\ pc = "summarize" =>
                sessions'[req.session_id].total_tokens_used = RequestTotal]_vars

\* C7 witness: a request whose second agent failed ended on a session that
\* had tokens before, with the tokens of both agents added.
C7_Witness ==
    /\ pc = "done"
    /\ Len(req.responses) = 2
    /\ req.responses[2].status = "failed"
    /\ TotalAtStart > 0
    /\ RequestTotal = TotalAtStart + req.responses[1].tokens_used
    /\ req.responses[1].tokens_used > 0

\* C8: process_request never raises: every request ends with a text handed
\* to the caller, an exception in the pipeline (agents = None makes the
\* resolution raise) ends it with the error text, and the next request can
\* start once a request has ended.
C8_NeverRaises ==
    /\ result.kind \in {"none", "response", "cannot_route", "error"}
    /\ pc = "done" => result.kind # "none" /\ result.text # ""
    /\ (pc = "done" /\ classification[1].agents.type # "list") =>
          /\ result.kind = "error"
          /\ executed = <<>>
    /\ (pc = "done" /\ clock < MaxRequests) =>
          \A s \in SessionIds, q \in RequestQueries : ENABLED StartRequest(s, q)

\* C8 witness: a request of a session that got an error answer before ended
\* with the aggregated response.
C8_Witness ==
    /\ pc = "done"
    /\ result.kind = "response"
    /\ req.session_id \in errored

SummarizeFailed == last_call.op = "summarize_context" /\ last_call.outcome = "failed"

\* C9: when the summarization call of a request fails, summarize_context
\* returns normally, the sessions dict and the session files are what they
\* were after the context update, the request returns the aggregated
\* response, and the request has made one summarization call only.
C9_SummarizeFailureHarmless ==
    /\ [](req.summarize_calls <= 1)
    /\ [][(pc = "summarize" /\ SummarizeFailed') =>
             /\ sessions' = sessions
             /\ disk' = disk
             /\ pc' = "done"
             /\ result' = [kind |-> "response", text |-> req.final_response]
             /\ req'.final_response = AggregateResponses(req.responses)
             /\ req'.summarize_calls = 1]_vars

\* C9 witness: a request ended with its response after its summarization
\* call had failed on a context over the threshold.
C9_Witness ==
    /\ pc = "done"
    /\ SummarizeFailed
    /\ req.summarize_calls = 1
    /\ result.kind = "response"
    /\ ShouldSummarize(sessions[req.session_id])

SummarizeSucceeded == last_call.op = "summarize_context" /\ last_call.outcome = "ok"

\* the context summarize_context(s) works on, before the call
ContextBefore(s) ==
    IF s \in DOMAIN sessions THEN sessions[s]
    ELSE IF s \in DOMAIN disk /\ disk[s].valid
    THEN [ContextSummary(s) EXCEPT
            !.conversation_summary = disk[s].data.conversation_summary,
            !.recent_turns = disk[s].data.recent_turns,
            !.active_files = disk[s].data.active_files,
            !.task_history = disk[s].data.task_history,
            !.total_tokens_used = disk[s].data.total_tokens_used]
    ELSE ContextSummary(s)

\* what a successful summarize_context leaves alone and what it replaces
SummaryReplaced(before, after, text) ==
    /\ after.conversation_summary = text
    /\ after.active_files = before.active_files
    /\ after.task_history = before.task_history
    /\ after.total_tokens_used = before.total_tokens_used

\* C10 as stated: a successful summarize_context replaces the summary by the
\* new text, leaves exactly one recent turn, the most recent one, and leaves
\* active_files, task_history and total_tokens_used as they were.
C10_CollapseToOneTurn ==
    [][SummarizeSucceeded' =>
         LET before == ContextBefore(last_call'.session_id)
             after == sessions'[last_call'.session_id]
         IN /\ SummaryReplaced(before, after, last_call'.text)
            /\ Len(after.recent_turns) = 1
            /\ after.recent_turns[1] = before.recent_turns[Len(before.recent_turns)]]_vars

\* C10, amended: a successful summarize_context replaces the summary by the
\* new text, leaves the single most recent turn when the context has turns
\* and no turn when it has none, and leaves active_files, task_history and
\* total_tokens_used as they were.
C10_CollapseToLastTurn ==
    [][SummarizeSucceeded' =>
         LET before == ContextBefore(last_call'.session_id)
             after == sessions'[last_call'.session_id]
         IN /\ SummaryReplaced(before, after, last_call'.text)
            /\ IF before.recent_turns = <<>>
               THEN after.recent_turns = <<>>
               ELSE /\ Len(after.recent_turns) = 1
                    /\ after.recent_turns[1]
                          = before.recent_turns[Len(before.recent_turns)]]_vars

\* C10 witness: a summarization replaced the summary S1 of a session by S2
\* and left the last of its turns, the one of the second update.
C10_Witness ==
    /\ SummarizeSucceeded
    /\ last_call.text = "S2"
    /\ LastContext.conversation_summary = "S2"
    /\ Len(LastContext.recent_turns) = 1
    /\ LastContext.recent_turns[1].timestamp = 2
    /\ LastContext.total_tokens_used = 200
    /\ LastContext.task_history # <<>>

---------------------------------------------------------------------------
(* Persistence *)

\* the request in flight, or the one that returned last
InRequest == pc # "idle" /\ req.session_id # ""

\* the turn of the request is complete: update_context has been called
TurnComplete == pc \in {"summarize", "done"}

\* C11: the session file is written only once classification, execution and
\* aggregation of the request have ended, and a request that stops at an
\* earlier state or fails in the middle of the write leaves a snapshot that
\* was loadable before the request loadable: the file holds the context
\* persisted before the request or the one the finished write put there.
C11_SnapshotSurvivesRequest ==
    InRequest =>
        LET s == req.session_id
            before == LoadFromDisk(pre.disk, s)
        IN /\ ~TurnComplete => disk = pre.disk
           /\ before # <<>> => LoadFromDisk(disk, s) \in {before, <<sessions[s]>>}

\* C12: a turn leaves recent_turns only once a successful summarization has
\* had it in its input, so no turn is dropped without being represented in
\* conversation_summary: as long as no summarization has succeeded on a
\* session's context, every turn appended to it is still in recent_turns.
C12_NoTurnDroppedUnsummarized ==
    \A s \in DOMAIN sessions :
        ~summarized[s] => Len(sessions[s].recent_turns) = n_updates[s]

\* this step is a ContextManager call that mutated the context of the
\* session it names and whose write of the session file did not fail
MutationSaved ==
    /\ \/ last_call'.op = "update_context"
       \/ last_call'.op = "summarize_context" /\ last_call'.outcome = "ok"
    /\ faults' = faults

\* the five fields of a context the snapshot has to give back
Persisted(context) ==
    [conversation_summary |-> context.conversation_summary,
     recent_turns |-> context.recent_turns,
     active_files |-> context.active_files,
     task_history |-> context.task_history,
     total_tokens_used |-> context.total_tokens_used]

\* C13: when update_context or a successful summarize_context returns and the
\* write did not fail, loading the session file gives a context equal to the
\* one in memory in summary, recent_turns, active_files, task_history and
\* total_tokens_used.
C13_SnapshotEqualsMemory ==
    [][MutationSaved =>
          LET s == last_call'.session_id
              loaded == LoadFromDisk(disk', s)
          IN /\ loaded # <<>>
             /\ Persisted(loaded[1]) = Persisted(sessions'[s])]_vars

\* C13 witness: a successful summarization was saved; the file gives back the
\* new summary, the one turn left, the active file and the task history.
C13_Witness ==
    /\ SummarizeSucceeded
    /\ LastContext.conversation_summary = "S1"
    /\ Len(LastContext.recent_turns) = 1
    /\ LastContext.active_files # <<>>
    /\ LastContext.task_history # <<>>
    /\ LoadFromDisk(disk, last_call.session_id) = <<LastContext>>

\* this step is the update_context of the request in flight and its write of
\* the session file failed
WriteFailed == pc = "aggregate" /\ faults' # faults

\* the turn update_context appends for the request in flight
RequestTurn ==
    ConversationTurn(QueryText(req.user_query), AggregateResponses(req.responses),
                     clock, SumTokens(req.responses))

\* C14: when the write of the snapshot fails, update_context raises nothing,
\* the context in memory holds the new turn and the new token total, the
\* request still returns its aggregated response, and a later get_context in
\* the same process returns the context in memory, not one read from disk.
C14_WriteFailureKeepsMemory ==
    [][LET s == req.session_id IN
       /\ WriteFailed =>
            /\ pc' \in {"summarize", "done"}
            /\ sessions'[s].recent_turns # <<>>
            /\ sessions'[s].recent_turns[Len(sessions'[s].recent_turns)] = RequestTurn
            /\ sessions'[s].total_tokens_used
                  = sessions[s].total_tokens_used + SumTokens(req.responses)
            /\ pc' = "done" =>
                  result' = Response(AggregateResponses(req.responses))
       /\ pc = "summarize" =>
            /\ result' = Response(req.final_response)
            /\ sessions'[s] = sessions[s]
       /\ (Idle /\ pc' = "classify" /\ req'.session_id \in DOMAIN sessions) =>
            sessions' = sessions]_vars

\* C14 witness: the write of the first request failed, no file is loadable,
\* and the second request of the same process got the context in memory
\* with the turn of the first.
C14_Witness ==
    /\ pc = "classify"
    /\ clock = 2
    /\ faults = 1
    /\ LoadFromDisk(disk, req.session_id) = <<>>
    /\ Len(sessions[req.session_id].recent_turns) = 1
    /\ sessions[req.session_id].recent_turns[1].timestamp = 1
    /\ sessions[req.session_id].total_tokens_used > 0
    /\ errored = {}

\* this step is a get_context call that returned
GetReturned == last_call'.op = "get_context"

\* the session file of s exists and json.load decodes it
Loadable(d, s) == s \in DOMAIN d /\ d[s].valid

\* C15: get_context returns the cached context when there is one, otherwise
\* the context read from the session file when the file exists and decodes,
\* otherwise a fresh context with empty summary, no turns and a zero token
\* total; it never replaces a cached context by what is on disk and never
\* writes the file.
C15_CacheThenDiskThenFresh ==
    [][GetReturned =>
          LET s == last_call'.session_id IN
          /\ disk' = disk
          /\ DOMAIN sessions' = DOMAIN sessions \cup {s}
          /\ \A x \in DOMAIN sessions : sessions'[x] = sessions[x]
          /\ (s \notin DOMAIN sessions /\ Loadable(disk, s)) =>
                /\ sessions'[s].session_id = disk[s].data.session_id
                /\ Persisted(sessions'[s]) = Persisted(disk[s].data)
          /\ (s \notin DOMAIN sessions /\ ~Loadable(disk, s)) =>
                /\ sessions'[s].session_id = s
                /\ sessions'[s].conversation_summary = ""
                /\ sessions'[s].recent_turns = <<>>
                /\ sessions'[s].active_files = <<>>
                /\ sessions'[s].task_history = <<>>
                /\ sessions'[s].total_tokens_used = 0]_vars

\* C15 witness: get_context returned the cached context of a session whose
\* file holds an older, loadable context (the last write had failed).
C15_Witness ==
    /\ last_call.op = "get_context"
    /\ Loadable(disk, last_call.session_id)
    /\ Len(disk[last_call.session_id].data.recent_turns) = 1
    /\ Len(LastContext.recent_turns) = 2
    /\ LastContext.total_tokens_used = 200

---------------------------------------------------------------------------
(* Aggregation *)

\* C16: when a request has exactly one agent response, whatever its status
\* and result, the aggregated text, which is the text the user gets, is the
\* result of that response verbatim.
C16_SingleResponseVerbatim ==
    (TurnComplete /\ Len(req.responses) = 1) =>
        /\ req.final_response = req.responses[1].result
        /\ pc = "done" => result.text = req.responses[1].result

\* the titled section of the i-th response of the request
Section(i) ==
    "## " \o TaskTitle(i) \o "\n\n" \o Str(req.responses[i].result) \o "\n"

\* C17: when a request has several agent responses, the aggregated text is
\* made of exactly one titled section per response, in execution order, with
\* none left out, moved or merged, the failed response of a chain that
\* stopped included.
C17_OneSectionPerResponse ==
    (TurnComplete /\ Len(req.responses) >= 2) =>
        /\ Len(req.responses) = Len(executed)
        /\ req.final_response
              = Join("\n", [i \in 1..Len(req.responses) |-> Section(i)])
        /\ pc = "done" => result = Response(req.final_response)

\* C17 witness: the second agent of three failed; the user gets two sections,
\* the first with the text of the first agent, the second with the failure.
C17_Witness ==
    /\ pc = "done"
    /\ Len(req.agents) = 3
    /\ Len(req.responses) = 2
    /\ req.responses[2].status = "failed"
    /\ result.text = "## 1F0E\n\nok\n\n## 2F0E\n\nNone\n"

---------------------------------------------------------------------------
(* Intent resolution of the AgentRegistry *)

\* a get_agents_for_intent call has returned since the registry last changed
Resolved == last_resolve.intent # None

\* the intent as get_agents_for_intent compares it: lower-cased and stripped
Asked == Strip(LowerStr(last_resolve.intent))

\* the i-th key of the table and the intent contain one another
KeyMatches(i) ==
    \/ Contains(Asked, intent_mappings[i][1])
    \/ Contains(intent_mappings[i][1], Asked)

\* the registered agents among those the i-th key of the table names
AgentsOfKey(i) == AgentsNamed(registry_agents, intent_mappings[i][2])

\* the first index of a non-empty set of indices
First(indices) == CHOOSE i \in indices : \A j \in indices : i <= j

\* what resolution returns when it answers from the keys with these indices:
\* the agents of the exact key if there is one, else those of the first of
\* the indices, else the empty list
ResolvedFrom(indices) ==
    IF \E i \in 1..Len(intent_mappings) : intent_mappings[i][1] = Asked
    THEN AgentsOfKey(CHOOSE i \in 1..Len(intent_mappings) : intent_mappings[i][1] = Asked)
    ELSE IF indices = {} THEN <<>>
    ELSE AgentsOfKey(First(indices))

\* C18: intent resolution tries an exact match on the table first; without
\* one it scans the keys in insertion order for substring containment in
\* either direction and returns the agent list of the first matching key; if
\* no key matches it returns the empty list.
C18_FirstMatchingKey ==
    Resolved =>
        last_resolve.result
           = ResolvedFrom({i \in 1..Len(intent_mappings) : KeyMatches(i)})

\* C18, amended: the scan returns the agents of the first matching key that
\* names at least one registered agent; a matching key none of whose agents
\* is registered is passed over, and the result is empty only when no
\* matching key has a registered agent.
C18_FirstMatchingKeyWithAgent ==
    Resolved =>
        last_resolve.result
           = ResolvedFrom({i \in 1..Len(intent_mappings) :
                              KeyMatches(i) /\ AgentsOfKey(i) # <<>>})

\* C18 witness: with the table of __init__ and only devops registered, "doc"
\* has no exact key; "documentation" and "docs" contain it but name an agent
\* that is not registered, and the scan goes on to "docker".
C18_Witness ==
    /\ intent_mappings = DefaultIntentMappings
    /\ registry_agents = <<"devops">>
    /\ last_resolve.intent = "doc"
    /\ last_resolve.result = <<"devops">>

\* the example of the claim: with only ci_cd in the table, cicd_pipeline
\* resolves to the empty list
C18_Example ==
    /\ intent_mappings = << <<"ci_cd", <<"devops">>>> >>
    /\ registry_agents = <<"devops">>
    /\ last_resolve.intent = "cicd_pipeline"
    /\ last_resolve.result = <<>>

\* this step is a get_agents_for_intent call, or changes nothing
ResolveReturned == last_resolve'.intent # None

\* C19: routing is deterministic: with no register_agent and no
\* add_intent_mapping call in between, a get_agents_for_intent call for an
\* intent returns the same agents in the same order as the earlier calls for
\* that intent, and the call changes neither the registered agents nor the
\* intent table.
C19_ResolveDeterministic ==
    [][ResolveReturned =>
          /\ registry_agents' = registry_agents
          /\ intent_mappings' = intent_mappings
          /\ last_resolve'.intent \in DOMAIN answers =>
                last_resolve'.result = answers[last_resolve'.intent]]_vars

\* C19 witness: " Code_Review " was resolved again, after other intents, and
\* gave coder and qa_checker in the order of the table, as before.
C19_Witness ==
    /\ last_resolve.repeated
    /\ last_resolve.intent = " Code_Review "
    /\ last_resolve.result = <<"coder", "qa_checker">>
    /\ DOMAIN answers = ResolveIntents
    /\ answers[" Code_Review "] = <<"coder", "qa_checker">>

---------------------------------------------------------------------------
(* Input boundary *)

\* the request being processed carries a query over the length limit
OversizedQuery == Len(req.user_query) > InputLengthLimit

\* the request being processed carries a session id validate_session_id rejects
InvalidSessionId == ~ValidateSessionId(req.session_id)

\* C20: a request whose query is oversized or whose session id has invalid
\* characters is rejected before any state mutation: while it is processed and
\* after it, no session context is created or changed and no snapshot file is
\* written
C20_MalformedRejected ==
    (InRequest /\ (OversizedQuery \/ InvalidSessionId)) =>
        /\ sessions = pre.sessions
        /\ disk = pre.disk

---------------------------------------------------------------------------
(* Memory search *)

\* the documents of a list of hits
Docs(xs) == {xs[i].doc_id : i \in 1..Len(xs)}

\* the place of document d in a list of hits that holds it
Place(xs, d) == CHOOSE i \in 1..Len(xs) : xs[i].doc_id = d

\* how often document d is in a list of hits
Occurrences(xs, d) == Cardinality({i \in 1..Len(xs) : xs[i].doc_id = d})

\* a HybridRetriever.search has returned
Searched == hits # NoHits

\* the documents the last search found by keyword and by similarity
InBoth == Docs(hits.keyword) \cap Docs(hits.semantic)

\* what the keyword rank of d contributed to its score in the last search
KeywordPart(d) ==
    KeywordContribution(Place(hits.keyword, d) - 1, Len(hits.keyword))

\* what the similarity of d contributed to its score in the last search
SemanticPart(d) ==
    SemanticContribution(hits.semantic[Place(hits.semantic, d)].score, Len(hits.keyword))

\* entry a of the merged set is ranked ahead of entry b: a higher score, or
\* the same score and merged earlier
Ahead(a, b) ==
    \/ a.score > b.score
    \/ /\ a.score = b.score
       /\ Place(hits.merged, a.doc_id) < Place(hits.merged, b.doc_id)

\* C21: a document in both the keyword and the semantic result set is in the
\* merged set exactly once, with the sum of its two contributions as score
\* and the source tag hybrid; the output holds the first limit entries of the
\* merged set in descending order of score, entries of equal score in the
\* order of the merge
C21_HybridMerge ==
    Searched =>
        LET m == hits.merged
            out == hits.output
        IN /\ \A d \in InBoth :
                  /\ Occurrences(m, d) = 1
                  /\ m[Place(m, d)].score = KeywordPart(d) + SemanticPart(d)
                  /\ m[Place(m, d)].source = "hybrid"
           /\ Len(out) = Min(hits.limit, Len(m))
           /\ \A i \in 1..Len(out) :
                  /\ \E j \in 1..Len(m) : out[i] = m[j]
                  /\ Occurrences(out, out[i].doc_id) = 1
           /\ \A i, j \in 1..Len(out) : i < j => Ahead(out[i], out[j])
           /\ \A j \in 1..Len(m) :
                  m[j].doc_id \notin Docs(out) =>
                      \A i \in 1..Len(out) : Ahead(out[i], m[j])

\* a search found a document by keyword and by similarity, returned it with
\* the tag hybrid ahead of another document, and cut the merged set to limit
C21_Witness ==
    /\ Searched
    /\ Len(hits.merged) > hits.limit
    /\ hits.output # <<>>
    /\ hits.output[1].doc_id \in InBoth
    /\ hits.output[1].source = "hybrid"
    /\ hits.output[1].doc_id # hits.keyword[1].doc_id

\* a search returned two documents of equal score
C21_Tie ==
    /\ Searched
    /\ Len(hits.output) = 2
    /\ hits.output[1].score = hits.output[2].score
    /\ hits.output[1].source = "keyword"
    /\ hits.output[2].source = "semantic"

\* the ids of the rows of the store
RowIds == {rows[i].id : i \in 1..Len(rows)}

\* the ids the keyword index holds
IndexedIds == {keyword_index[i] : i \in 1..Len(keyword_index)}

---------------------------------------------------------------------------
(* Order of the steps of a request *)

\* how far a request at position p has come: context loaded (classify),
\* agents resolved and executing (execute), aggregating (aggregate), context
\* updated and summarizing (summarize), done
Stage(p) ==
    CASE p = "idle" -> 0
      [] p = "classify" -> 1
      [] p = "execute" -> 2
      [] p = "aggregate" -> 3
      [] p = "summarize" -> 4
      [] p = "done" -> 5

\* every agent execution of the request has ended: the chain ran to its end
\* or to its first failure
AllExecuted ==
    /\ req.responses # <<>>
    /\ Len(executed) = Len(req.responses)
    /\ \/ Len(req.responses) = Len(req.agents)
       \/ req.responses[Len(req.responses)].status = "failed"

\* C23: a request moves through context loading, classification and agent
\* resolution, execution, aggregation, context update, summarization and
\* done in this order and never backwards; the context is not touched while
\* agents remain to be executed, update_context runs when all executions
\* have ended, the summarization runs right after the context update, and a
\* request that returns the aggregated answer has gone through all of them
C23_StagesInOrder ==
    [][ /\ pc \notin {"idle", "done"} => Stage(pc') >= Stage(pc)
        /\ pc \in {"classify", "execute"} => (sessions' = sessions /\ disk' = disk)
        /\ pc = "aggregate" => (AllExecuted /\ last_call'.op = "update_context")
        /\ pc \in {"aggregate", "summarize"} =>
               (req.responses' = req.responses /\ executed' = executed)
        /\ pc = "summarize" =>
               (last_call.op = "update_context" /\ last_call'.op = "summarize_context")
        /\ (pc' = "done" /\ result'.kind = "response") =>
               /\ classification' # <<>>
               /\ AllExecuted'
               /\ last_call'.op \in {"update_context", "summarize_context"}
               /\ result'.text = req'.final_response
      ]_vars

\* a request with three agents went through every step, the summarization
\* included, and is done
C23_Witness ==
    /\ pc = "done"
    /\ result.kind = "response"
    /\ Len(req.agents) = 3
    /\ Len(req.responses) = 3
    /\ last_call.op = "summarize_context"

---------------------------------------------------------------------------
(* Failures inside an agent *)

\* the LLM call of the i-th execution, or the handling of its response, failed
ExecutionFailed(i) == ~replies[i].ok \/ ~replies[i].usage

\* C24: execute never raises: every execution hands back a response, and an
\* execution whose LLM call or response handling failed hands back one with
\* status failed, a non-empty errors list, result None, tokens_used 0 and no
\* actions
C24_ExecuteNeverRaises ==
    /\ Len(req.responses) = Len(replies)
    /\ \A i \in 1..Len(replies) :
           LET response == req.responses[i] IN
           /\ response.status \in {"success", "failed"}
           /\ ExecutionFailed(i) <=> response.status = "failed"
           /\ ExecutionFailed(i) =>
                  /\ response.errors # <<>>
                  /\ response.result = None
                  /\ response.tokens_used = 0
                  /\ response.actions_taken = <<>>
                  /\ response.tool_calls = <<>>

\* one agent's LLM call raised and another agent's response handling raised
\* after a tool use; both handed back a failed response
C24_Witness ==
    /\ Len(replies) = 2
    /\ ~replies[1].ok
    /\ replies[2].ok /\ ~replies[2].usage /\ replies[2].tools # <<>>
    /\ req.responses[1].status = "failed"
    /\ req.responses[2].status = "failed"

---------------------------------------------------------------------------
(* The summarization test *)

RECURSIVE SumLen(_)
\* the characters of a list of texts
SumLen(xs) == IF xs = <<>> THEN 0 ELSE Len(Head(xs)) + SumLen(Tail(xs))

\* the task-history entries the estimate counts: the last 10
CountedTasks(context) ==
    LET n == Len(context.task_history) IN
    [i \in 1..Min(n, 10) |-> context.task_history[n - Min(n, 10) + i]]

\* the lines of the serialized recent turns, active files and counted tasks
SerializedLines(context) ==
    3 * Len(context.recent_turns)
    + (IF context.active_files = <<>> THEN 0 ELSE Len(context.active_files) + 2)
    + (IF context.task_history = <<>> THEN 0 ELSE Len(CountedTasks(context)) + 2)

\* the characters of these lines and of the newlines between them
SerializedLength(context) ==
    SumLen([i \in 1..Len(context.recent_turns) |->
               "User: " \o context.recent_turns[i].user
               \o "Assistant: " \o context.recent_turns[i].assistant])
    + (IF context.active_files = <<>> THEN 0
       ELSE Len("Active Files:")
            + SumLen([i \in 1..Len(context.active_files) |->
                         "  - " \o context.active_files[i][1] \o ": "
                         \o context.active_files[i][2]]))
    + (IF context.task_history = <<>> THEN 0
       ELSE Len("Recent Actions:")
            + SumLen(CountedTasks(context)) + 4 * Len(CountedTasks(context)))
    + (IF SerializedLines(context) = 0 THEN 0 ELSE SerializedLines(context) - 1)

\* the step is a should_summarize call that answers as the claim says: true
\* exactly when a quarter of the serialized length, rounded down, is above
\* int(max_context_tokens * summarization_threshold), the estimate counting
\* neither the summary nor the tasks before the last 10
AnswersByEstimate ==
    LET context == sessions'[last_call'.session_id] IN
    /\ EstimateContextTokens(context) = SerializedLength(context) \div 4
    /\ last_call'.outcome = "true" <=>
           SerializedLength(context) \div 4 > (MaxContextTokens * SummarizationPct) \div 100

\* C25 as stated: should_summarize answers by the estimate and changes no
\* context state
C25_EstimateAndNoChange ==
    [][ last_call'.op = "should_summarize" =>
            /\ AnswersByEstimate
            /\ sessions' = sessions
            /\ disk' = disk ]_vars

\* C25, amended: should_summarize answers by the estimate, writes no file and
\* changes no context of the cache; a session that is not in the cache is
\* entered into it as get_context does, from its file or as a fresh context
C25_EstimateAndNoChangeOfCached ==
    [][ last_call'.op = "should_summarize" =>
            LET s == last_call'.session_id IN
            /\ AnswersByEstimate
            /\ disk' = disk
            /\ \A x \in DOMAIN sessions : x \in DOMAIN sessions' /\ sessions'[x] = sessions[x]
            /\ DOMAIN sessions' = DOMAIN sessions \cup {s}
            /\ (s \notin DOMAIN sessions /\ Loadable(disk, s)) =>
                   Persisted(sessions'[s]) = Persisted(disk[s].data)
            /\ (s \notin DOMAIN sessions /\ ~Loadable(disk, s)) =>
                   sessions'[s] = ContextSummary(s) ]_vars

\* should_summarize answered true for a cached context with a summary and
\* more than ten tasks
C25_Witness ==
    /\ last_call.op = "should_summarize"
    /\ last_call.outcome = "true"
    /\ "s1" \in DOMAIN sessions
    /\ sessions["s1"].conversation_summary # ""
    /\ Len(sessions["s1"].task_history) > 10

\* should_summarize answered false for a context with a turn
C25_BelowThreshold ==
    /\ last_call.op = "should_summarize"
    /\ last_call.outcome = "false"
    /\ sessions[last_call.session_id].recent_turns # <<>>

---------------------------------------------------------------------------
(* The messages of an agent *)

\* the messages the claim describes for a query and a context: the summary
\* when there is one, the last k turns as user and assistant messages, oldest
\* first, and the query with the active files
DescribedMessages(query, context, k) ==
    LET turns == context.recent_turns
        first == IF Len(turns) > k THEN Len(turns) - k + 1 ELSE 1
        shown == SubSeq(turns, first, Len(turns))
        summary == context.conversation_summary
    IN /\ Len(messages) > 0
       /\ LET msgs == messages[Len(messages)]
              offset == IF summary = "" THEN 0 ELSE 2
          IN /\ Len(msgs) = offset + 2 * Len(shown) + 1
             /\ summary # "" =>
                    /\ msgs[1].role = "user"
                    /\ Contains(msgs[1].content, summary)
             /\ \A i \in 1..Len(shown) :
                    /\ msgs[offset + 2 * i - 1] = Message("user", shown[i].user)
                    /\ msgs[offset + 2 * i] = Message("assistant", shown[i].assistant)
             /\ msgs[Len(msgs)].role = "user"
             /\ SubSeq(msgs[Len(msgs)].content, 1, Len(query)) = query
             /\ \A i \in 1..Len(context.active_files) :
                    Contains(msgs[Len(msgs)].content, context.active_files[i][1])

\* C26: the messages an agent builds hold, in this order, the session
\* summary when it is not empty, the last recent_turns_to_keep turns of the
\* context as user and assistant pairs, oldest first, and the query with the
\* active files
C26_MessagesHoldLastKTurns ==
    (messages # <<>> /\ "s1" \in DOMAIN sessions) =>
        DescribedMessages(TaskQuery, sessions["s1"], recent_turns_to_keep)

\* the messages hold the last two turns of the context
C26_MessagesHoldLastTwoTurns ==
    (messages # <<>> /\ "s1" \in DOMAIN sessions) =>
        DescribedMessages(TaskQuery, sessions["s1"], 2)

---------------------------------------------------------------------------
(* Termination of a request *)

\* a process_request is in flight
InFlight == pc \notin {"idle", "done"}

\* the request has returned a text to its caller
ReturnedText ==
    /\ pc = "done"
    /\ result.kind \in {"response", "cannot_route", "error"}
    /\ Len(result.text) >= 0

\* the agents the classification of the request names
ClassifiedAgents ==
    IF classification # <<>> /\ classification[1].agents.type = "list"
    THEN Len(classification[1].agents.items) ELSE 0

\* C27: as long as every LLM call and storage operation returns or fails, a
\* request in flight reaches done and returns a text; it executes at most as
\* many agents as its classification names, each of them once, and makes at
\* most one summarization attempt
C27_RequestTerminates ==
    /\ [](/\ Len(executed) <= ClassifiedAgents
          /\ Len(req.responses) = Len(executed)
          /\ req.summarize_calls <= 1
          /\ pc = "done" => ReturnedText)
    /\ (InFlight ~> ReturnedText)

\* a request ran the three agents of its classification, attempted the
\* summarization once and returned its answer
C27_Witness ==
    /\ ReturnedText
    /\ result.kind = "response"
    /\ Len(executed) = 3
    /\ ClassifiedAgents = 3
    /\ req.summarize_calls = 1

---------------------------------------------------------------------------
(* The keyword fallback of the classification *)

\* the query of the request mentions a word of the group
Mentions(words) == AnyWordIn(words, Lower(req.user_query))

\* the agents the Orchestrator registered at startup
Registered == {registry_agents[i] : i \in 1..Len(registry_agents)}

\* the request in flight or done has been classified
Classified == pc \in {"execute", "aggregate", "summarize", "done"} /\ classification # <<>>

\* C28: a classification of the keyword fallback names exactly one agent,
\* one the Orchestrator registered at startup, so the request is not answered
\* with the cannot-route response; the agent is that of the first group the
\* query mentions in the order test, requirement, qa, docs, and coder when it
\* mentions none
C28_FallbackRoutes ==
    Classified =>
        LET named == classification[1].agents IN
        /\ named.type = "list"
        /\ Len(named.items) = 1
        /\ named.items[1] \in Registered
        /\ req.agents = named.items
        /\ result.kind # "cannot_route"
        /\ named.items[1] = "test_writer" <=> Mentions(TestWords)
        /\ named.items[1] = "requirement_analyzer" <=>
               (~Mentions(TestWords) /\ Mentions(RequirementWords))
        /\ named.items[1] = "qa_checker" <=>
               (~Mentions(TestWords) /\ ~Mentions(RequirementWords) /\ Mentions(QaWords))
        /\ named.items[1] = "docs_agent" <=>
               (/\ ~Mentions(TestWords) /\ ~Mentions(RequirementWords)
                /\ ~Mentions(QaWords) /\ Mentions(DocsWords))
        /\ named.items[1] = "coder" <=>
               (/\ ~Mentions(TestWords) /\ ~Mentions(RequirementWords)
                /\ ~Mentions(QaWords) /\ ~Mentions(DocsWords))

\* a request that mentions the docs and the qa group was answered by the
\* qa checker
C28_Witness ==
    /\ pc = "done"
    /\ result.kind = "response"
    /\ Mentions(DocsWords) /\ Mentions(QaWords)
    /\ executed = <<"qa_checker">>

---------------------------------------------------------------------------
(* Interleaved requests of one session *)

\* every coroutine has returned
AllReturned == \A t \in Tasks : tasks[t].pc = "idle"

\* the requests of session s that returned after their update_context
UpdatedRequests(s) ==
    {i \in 1..Len(finished) : finished[i].updated /\ finished[i].session_id = s}

RECURSIVE TokensOf(_, _)
\* the sum of the token totals of the first n requests that returned, those
\* of session s that reached update_context
TokensOf(s, n) ==
    IF n = 0 THEN 0
    ELSE TokensOf(s, n - 1) + (IF n \in UpdatedRequests(s) THEN finished[n].tokens ELSE 0)

RECURSIVE ActionsOf(_, _)
\* the number of actions these requests reported
ActionsOf(s, n) ==
    IF n = 0 THEN 0
    ELSE ActionsOf(s, n - 1)
         + (IF n \in UpdatedRequests(s) THEN Len(finished[n].actions) ELSE 0)

\* ys is a run of consecutive elements of xs
HasRun(xs, ys) ==
    \E i \in 0..(Len(xs) - Len(ys)) : SubSeq(xs, i + 1, i + Len(ys)) = ys

\* C29: when the requests of a session that interleaved at their LLM calls
\* have all returned, the cached context has lost no update: its
\* total_tokens_used is the sum of the token totals of the requests that
\* reached update_context, and its task_history holds the actions of each of
\* them and nothing else.
C29_NoLostUpdate ==
    AllReturned =>
        \A s \in SessionIds :
            UpdatedRequests(s) # {} =>
                /\ s \in DOMAIN sessions
                /\ sessions[s].total_tokens_used = TokensOf(s, Len(finished))
                /\ \A i \in UpdatedRequests(s) :
                       HasRun(sessions[s].task_history, finished[i].actions)
                /\ Len(sessions[s].task_history) = ActionsOf(s, Len(finished))

\* two requests of s1 have returned with tokens and actions; the second began
\* while the context was the empty one the first had created, that is, before
\* the first reached its update_context
C29_Witness ==
    /\ AllReturned
    /\ Len(finished) = 2
    /\ \A i \in 1..2 : /\ finished[i].updated
                       /\ finished[i].tokens > 0
                       /\ finished[i].actions # <<>>
    /\ "s1" \in DOMAIN pre.sessions
    /\ pre.sessions["s1"] = ContextSummary("s1")
    /\ sessions["s1"].total_tokens_used = finished[1].tokens + finished[2].tokens

---------------------------------------------------------------------------
(* Requests that interleave with a summarization call *)

\* the turns of a list of turns
TurnsOf(turns) == {turns[i] : i \in 1..Len(turns)}

\* the summarization call of coroutine t returns in this step
SummarizationReturns(t) == tasks[t].pc = "summarize" /\ tasks'[t].pc = "idle"

\* the turns this step removes from the recent_turns of session s
Removed(s) == TurnsOf(sessions[s].recent_turns) \ TurnsOf(sessions'[s].recent_turns)

====
